---------------------------- MODULE Spec2Model ----------------------------
(***************************************************************************)
(* A model of the StarDict lookup engine of sdcv, src/stardict_lib.cpp:    *)
(* the headword comparator, the two index variants and their lookup, the   *)
(* synonym file, Dict::Lookup and the lookup modes of Libs, the records of *)
(* the .dict file (SearchData, GetWordData), Libs::LookupData,             *)
(* analyze_query, the .oft cache of the page offsets, the .ifo file and    *)
(* the loading of a dictionary.                                            *)
(*                                                                         *)
(* A C string is a sequence of byte values (0..255) without its NUL; the   *)
(* byte read at a position past the end is the terminating NUL, 0.         *)
(***************************************************************************)
EXTENDS Integers, Sequences, FiniteSets, TLC

VARIABLES
    s1, s2, s3,   \* the three strings handed to stardict_strcmp
    cmp,          \* the results of the comparisons of s1, s2, s3
    oLib,         \* Libs::oLib: the loaded dictionaries, in load order
    fuzzy_,       \* Libs::fuzzy_: whether SimpleLookupWord falls back
    fz,           \* the locals of a LookupWithFuzzy call in progress
    ret,          \* the last call made on the library and what it returned
    disk          \* the files that loading reads and writes

vars == <<s1, s2, s3, cmp, oLib, fuzzy_, fz, ret, disk>>

(***************************************************************************)
(* Characters and strings                                                  *)
(***************************************************************************)
LowerLetters == <<"a","b","c","d","e","f","g","h","i","j","k","l","m",
                  "n","o","p","q","r","s","t","u","v","w","x","y","z">>
UpperLetters == <<"A","B","C","D","E","F","G","H","I","J","K","L","M",
                  "N","O","P","Q","R","S","T","U","V","W","X","Y","Z">>

\* The ASCII code of a one-character string.
Code(c) ==
    IF \E i \in 1..26 : LowerLetters[i] = c
    THEN 96 + (CHOOSE i \in 1..26 : LowerLetters[i] = c)
    ELSE IF \E i \in 1..26 : UpperLetters[i] = c
    THEN 64 + (CHOOSE i \in 1..26 : UpperLetters[i] = c)
    ELSE CASE c = " "  -> 32
           [] c = "*"  -> 42
           [] c = "/"  -> 47
           [] c = "?"  -> 63
           [] c = "\\" -> 92
           [] c = "|"  -> 124

\* The C string spelled by a sequence of one-character strings.
Str(s) == [i \in 1..Len(s) |-> Code(s[i])]

\* The byte at 0-based position i of the C string s: s[i] in the source.
At(s, i) == IF i >= 0 /\ i < Len(s) THEN s[i + 1] ELSE 0

Sign(x) == IF x < 0 THEN -1 ELSE IF x > 0 THEN 1 ELSE 0

\* All strings over the bytes of alphabet of length 0..n.
RECURSIVE StringsUpTo(_, _)
StringsUpTo(alphabet, n) ==
    IF n = 0 THEN {<<>>}
    ELSE LET shorter == StringsUpTo(alphabet, n - 1)
         IN  shorter \cup {Append(s, c) : s \in shorter, c \in alphabet}

(***************************************************************************)
(* The comparator                                                          *)
(***************************************************************************)
g_ascii_isupper(c) == c >= 65 /\ c <= 90
g_ascii_islower(c) == c >= 97 /\ c <= 122
g_ascii_tolower(c) == IF g_ascii_isupper(c) THEN c + 32 ELSE c
g_ascii_toupper(c) == IF g_ascii_islower(c) THEN c - 32 ELSE c

\* glib's g_ascii_strcasecmp: the difference of the first two bytes that
\* differ after ASCII lower-casing, bytes taken as unsigned; the NUL of the
\* shorter string takes part in the comparison.
RECURSIVE CaseCmpFrom(_, _, _)
CaseCmpFrom(a, b, i) ==
    IF At(a, i) = 0 \/ At(b, i) = 0 THEN At(a, i) - At(b, i)
    ELSE LET c1 == g_ascii_tolower(At(a, i))
             c2 == g_ascii_tolower(At(b, i))
         IN  IF c1 # c2 THEN c1 - c2 ELSE CaseCmpFrom(a, b, i + 1)

g_ascii_strcasecmp(a, b) == CaseCmpFrom(a, b, 0)

\* strcmp: the difference of the first two bytes that differ, as unsigned.
RECURSIVE StrCmpFrom(_, _, _)
StrCmpFrom(a, b, i) ==
    IF At(a, i) # At(b, i) THEN At(a, i) - At(b, i)
    ELSE IF At(a, i) = 0 THEN 0
    ELSE StrCmpFrom(a, b, i + 1)

\* Mutant of strcmp: letters compare equal whatever their case.
strcmp_CaseFolded(a, b) == g_ascii_strcasecmp(a, b)

strcmp(a, b) == StrCmpFrom(a, b, 0)

\* Mutant of stardict_strcmp: the case-sensitive tiebreak is dropped.
stardict_strcmp_NoTiebreak(a, b) == g_ascii_strcasecmp(a, b)

stardict_strcmp(a, b) ==
    LET r == g_ascii_strcasecmp(a, b)
    IN  IF r = 0 THEN strcmp(a, b) ELSE r

(***************************************************************************)
(* The index file and the two index variants                               *)
(*                                                                         *)
(* An .idx file is the sequence of its entries' keys; entry i occupies     *)
(* strlen(key) + 1 + 2 * sizeof(guint32) bytes.  Positions in an index are *)
(* 0-based as in the source; a vector v of the source is a sequence whose  *)
(* element v[i] is written El(v, i).                                       *)
(***************************************************************************)
ENTR_PER_PAGE == 32

\* The sentinel of stardict_lib.hpp for "past the last key".
INVALID_INDEX == -1

El(v, i) == v[i + 1]

\* The caller's next_idx before any lookup has written it.
NotWritten == [written |-> FALSE, val |-> 0]
Written(v) == [written |-> TRUE, val |-> v]

index_size(key) == Len(key) + 1 + 2 * 4

\* Mutant of BinarySearch: an equal key sends the search to the right
\* (cmpint >= 0 instead of cmpint > 0).
RECURSIVE BinarySearch_EqualGoesRight(_, _, _, _, _)
BinarySearch_EqualGoesRight(str, keys, iFrom, iTo, iThisIndex) ==
    IF iFrom > iTo
    THEN [bFound |-> FALSE, iThisIndex |-> iThisIndex, iFrom |-> iFrom, iTo |-> iTo]
    ELSE LET mid    == (iFrom + iTo) \div 2
             cmpint == stardict_strcmp(str, El(keys, mid))
         IN  IF cmpint >= 0
             THEN BinarySearch_EqualGoesRight(str, keys, mid + 1, iTo, mid)
             ELSE BinarySearch_EqualGoesRight(str, keys, iFrom, mid - 1, mid)

\* The binary search loop shared by the lookups: keys is the vector whose
\* element i the loop compares str with.  Returns the loop's variables.
RECURSIVE BinarySearch(_, _, _, _, _)
BinarySearch(str, keys, iFrom, iTo, iThisIndex) ==
    IF iFrom > iTo
    THEN [bFound |-> FALSE, iThisIndex |-> iThisIndex, iFrom |-> iFrom, iTo |-> iTo]
    ELSE LET mid    == (iFrom + iTo) \div 2
             cmpint == stardict_strcmp(str, El(keys, mid))
         IN  IF cmpint > 0 THEN BinarySearch(str, keys, mid + 1, iTo, mid)
             ELSE IF cmpint < 0 THEN BinarySearch(str, keys, iFrom, mid - 1, mid)
             ELSE [bFound |-> TRUE, iThisIndex |-> mid, iFrom |-> iFrom, iTo |-> iTo]

(*----------------------------- WordListIndex -----------------------------*)

\* WordListIndex::load: wordlist[0..wc-1] point at the wc keys (wordlist[wc]
\* points past the last entry and is never a key).
WordListIndex_load(file, wc) ==
    [kind |-> "WordListIndex", wordcount |-> wc, wordlist |-> SubSeq(file, 1, wc)]

WordListIndex_get_key(self, idx) == El(self.wordlist, idx)

\* Mutant of WL_WalkBack: nothing behind the found index is collected.
WL_WalkBack_None(self, str, iHeadIndex) == {}

\* The walk behind the found index: the indices iHeadIndex, iHeadIndex-1, ...
\* whose keys equal str.
RECURSIVE WL_WalkBack(_, _, _)
WL_WalkBack(self, str, iHeadIndex) ==
    IF iHeadIndex >= 0 /\ stardict_strcmp(str, WordListIndex_get_key(self, iHeadIndex)) = 0
    THEN {iHeadIndex} \cup WL_WalkBack(self, str, iHeadIndex - 1)
    ELSE {}

\* The do-while ahead of the found index: iThisIndex itself, unchecked, then
\* every following index whose key equals str.
RECURSIVE WL_WalkAhead(_, _, _, _)
WL_WalkAhead(self, str, iThisIndex, iLast) ==
    {iThisIndex} \cup
        IF iThisIndex + 1 <= iLast
           /\ stardict_strcmp(str, WordListIndex_get_key(self, iThisIndex + 1)) = 0
        THEN WL_WalkAhead(self, str, iThisIndex + 1, iLast)
        ELSE {}

\* WordListIndex::lookup(str, idxs, next_idx): idxs and next_idx are the
\* caller's; the result holds them as the call leaves them.
WordListIndex_lookup(self, str, idxs, next_idx) ==
    LET iLast == (self.wordcount + 1) - 2      \* wordlist.size() - 2
        \* what follows the binary search, whose variables are b
        Searched(b) ==
            IF ~b.bFound
            THEN [self |-> self, bFound |-> FALSE, idxs |-> idxs,
                  next_idx |-> Written(b.iFrom)]
            ELSE [self |-> self, bFound |-> TRUE,
                  idxs |-> idxs \cup WL_WalkBack(self, str, b.iThisIndex - 1)
                                \cup WL_WalkAhead(self, str, b.iThisIndex, iLast),
                  next_idx |-> next_idx]
    IN  IF stardict_strcmp(str, WordListIndex_get_key(self, 0)) < 0
        THEN [self |-> self, bFound |-> FALSE, idxs |-> idxs, next_idx |-> Written(0)]
        ELSE IF stardict_strcmp(str, WordListIndex_get_key(self, iLast)) > 0
        THEN [self |-> self, bFound |-> FALSE, idxs |-> idxs,
              next_idx |-> Written(INVALID_INDEX)]
        ELSE Searched(BinarySearch(str, self.wordlist, 0, iLast, 0))

(*------------------------------ OffsetIndex ------------------------------*)

\* One pass of the scan loop of OffsetIndex::load: st.i is the entry
\* reached, st.p1 its byte offset in the file, st.wordoffset the offsets
\* written so far (one per page begun).
ScanStep(file, st) ==
    [i |-> st.i + 1,
     p1 |-> st.p1 + index_size(El(file, st.i)),
     wordoffset |-> IF st.i % ENTR_PER_PAGE = 0
                    THEN Append(st.wordoffset, st.p1) ELSE st.wordoffset]

\* Up to n passes of the loop, which ends when i reaches wc.
RECURSIVE ScanPasses(_, _, _, _)
ScanPasses(file, wc, st, n) ==
    IF n = 0 \/ st.i >= wc THEN st
    ELSE ScanPasses(file, wc, ScanStep(file, st), n - 1)

\* The whole loop, a page's worth of passes at a time.
RECURSIVE ScanLoop(_, _, _)
ScanLoop(file, wc, st) ==
    IF st.i >= wc THEN st
    ELSE ScanLoop(file, wc, ScanPasses(file, wc, st, ENTR_PER_PAGE))

\* The table OffsetIndex::load computes from the file: the loop, then the
\* end offset in the slot after the last one written.
ScanOffsets(file, wc) ==
    LET st == ScanLoop(file, wc, [i |-> 0, p1 |-> 0, wordoffset |-> <<>>])
    IN  Append(st.wordoffset, st.p1)

\* The .idx file as fopen gives it to the index: its keys, and for the
\* seeks the byte offset at which each entry starts (entry i starts where
\* entry i-1 ends).
RECURSIVE EntryStarts(_, _, _, _, _)
EntryStarts(file, i, p, acc, n) ==
    IF n = 0 \/ i >= Len(file) THEN [i |-> i, p |-> p, acc |-> acc]
    ELSE EntryStarts(file, i + 1, p + index_size(El(file, i)), Append(acc, p), n - 1)

RECURSIVE AllEntryStarts(_, _)
AllEntryStarts(file, st) ==
    IF st.i >= Len(file) THEN st.acc
    ELSE AllEntryStarts(file, EntryStarts(file, st.i, st.p, st.acc, ENTR_PER_PAGE))

fopen(file) ==
    [keys |-> file, starts |-> AllEntryStarts(file, [i |-> 0, p |-> 0, acc |-> <<>>])]

\* The number of the entry of the open file f that starts at byte offset
\* off, searched among entries lo..hi; -1 if no entry starts there.
RECURSIVE EntryAtOffset(_, _, _, _)
EntryAtOffset(f, off, lo, hi) ==
    IF lo > hi THEN -1
    ELSE LET mid == (lo + hi) \div 2
             at  == El(f.starts, mid)
         IN  IF at = off THEN mid
             ELSE IF at < off THEN EntryAtOffset(f, off, mid + 1, hi)
             ELSE EntryAtOffset(f, off, lo, mid - 1)

\* OffsetIndex::read_first_on_page_key: the key that starts at
\* wordoffset[page_idx] in the file.
read_first_on_page_key(self, page_idx) ==
    El(self.idxfile.keys, EntryAtOffset(self.idxfile, El(self.wordoffset, page_idx),
                                        0, Len(self.idxfile.keys) - 1))

\* Mutant of page_fill: the entries are parsed from the start of the file,
\* not from wordoffset[page_idx].
page_fill_FromStart(self, nent, page_idx) ==
    [idx |-> page_idx, entries |-> SubSeq(self.idxfile.keys, 1, nent)]

\* page_t::fill on the bytes read at wordoffset[page_idx]: the nent entries
\* parsed from there, one after the other.
page_fill(self, nent, page_idx) ==
    LET e == EntryAtOffset(self.idxfile, El(self.wordoffset, page_idx),
                           0, Len(self.idxfile.keys) - 1)
    IN  [idx |-> page_idx, entries |-> SubSeq(self.idxfile.keys, e + 1, e + nent)]

\* The entry count load_page returns for page_idx.
load_page_nentr(self, page_idx) ==
    IF page_idx = Len(self.wordoffset) - 2
    THEN IF self.wordcount % ENTR_PER_PAGE = 0 THEN ENTR_PER_PAGE
         ELSE self.wordcount % ENTR_PER_PAGE
    ELSE ENTR_PER_PAGE

\* OffsetIndex::load_page: the index after the call (the page buffer is
\* read only when another page is asked for).
load_page(self, page_idx) ==
    IF page_idx # self.page.idx
    THEN [self EXCEPT !.page = page_fill(self, load_page_nentr(self, page_idx), page_idx)]
    ELSE self

\* OffsetIndex::get_key: the index after the call and the key returned.
OffsetIndex_get_key(self, idx) ==
    LET Key(loaded) ==
            [self |-> loaded, key |-> El(loaded.page.entries, idx % ENTR_PER_PAGE)]
    IN  Key(load_page(self, idx \div ENTR_PER_PAGE))

index_entry(i, str) == [idx |-> i, keystr |-> str]

\* The end of OffsetIndex::load: the file is opened and the anchors are
\* read through the page-offset table wordoffset.
OffsetIndex_open(file, wc, wordoffset) ==
    LET \* the anchors of the index opened, k being get_key(wc - 1)
        Anchors(opened, k, lastp, midp) ==
            [kind |-> "OffsetIndex", wordcount |-> wc, idxfile |-> opened.idxfile,
             wordoffset |-> opened.wordoffset,
             page |-> k.self.page,
             first |-> index_entry(0, read_first_on_page_key(opened, 0)),
             last |-> index_entry(lastp, read_first_on_page_key(opened, lastp)),
             middle |-> index_entry(midp, read_first_on_page_key(opened, midp)),
             real_last |-> index_entry(wc - 1, k.key)]
        Opened(opened) ==
            Anchors(opened, OffsetIndex_get_key(opened, wc - 1),
                    Len(opened.wordoffset) - 2, (Len(opened.wordoffset) - 2) \div 2)
    IN  Opened([kind |-> "OffsetIndex", wordcount |-> wc, idxfile |-> fopen(file),
                wordoffset |-> wordoffset,
                page |-> [idx |-> -1, entries |-> <<>>]])

\* OffsetIndex::load with no usable .oft cache: the page-offset table is
\* computed from the file, then the anchors are read.
OffsetIndex_load(file, wc) == OffsetIndex_open(file, wc, ScanOffsets(file, wc))

\* OffsetIndex::get_first_on_page_key: the anchors answer for their pages.
get_first_on_page_key(self, page_idx) ==
    IF page_idx < self.middle.idx
    THEN IF page_idx = self.first.idx THEN self.first.keystr
         ELSE read_first_on_page_key(self, page_idx)
    ELSE IF page_idx > self.middle.idx
    THEN IF page_idx = self.last.idx THEN self.last.keystr
         ELSE read_first_on_page_key(self, page_idx)
    ELSE self.middle.keystr

\* The walk behind the found index; get_key pages as it goes.  Returns the
\* index after the walk and the indices inserted.
RECURSIVE OI_WalkBack(_, _, _, _)
OI_WalkBack(self, str, iHeadIndex, acc) ==
    IF iHeadIndex < 0 THEN [self |-> self, idxs |-> acc]
    ELSE LET Step(k) ==
                 IF stardict_strcmp(str, k.key) = 0
                 THEN OI_WalkBack(k.self, str, iHeadIndex - 1, acc \cup {iHeadIndex})
                 ELSE [self |-> k.self, idxs |-> acc]
         IN  Step(OffsetIndex_get_key(self, iHeadIndex))

\* Mutant of OI_WalkAhead: only the found index is inserted.
OI_WalkAhead_FoundOnly(self, str, iThisIndex, acc) ==
    [self |-> self, idxs |-> acc \cup {iThisIndex}]

\* The do-while ahead of the found index.
RECURSIVE OI_WalkAhead(_, _, _, _)
OI_WalkAhead(self, str, iThisIndex, acc) ==
    LET ins == acc \cup {iThisIndex}
        Step(k) ==
            IF stardict_strcmp(str, k.key) = 0
            THEN OI_WalkAhead(k.self, str, iThisIndex + 1, ins)
            ELSE [self |-> k.self, idxs |-> ins]
    IN  IF iThisIndex + 1 <= self.real_last.idx
        THEN Step(OffsetIndex_get_key(self, iThisIndex + 1))
        ELSE [self |-> self, idxs |-> ins]

\* Mutant of OI_next_idx: the in-page position is reported without the
\* page's base.
OI_next_idx_InPage(iPage, iFrom) == iFrom

\* The insertion point OffsetIndex::lookup reports on a miss.
OI_next_idx(iPage, iFrom) == iPage * ENTR_PER_PAGE + iFrom

\* OffsetIndex::lookup(str, idxs, next_idx).
OffsetIndex_lookup(self, str, idxs, next_idx) ==
    IF stardict_strcmp(str, self.first.keystr) < 0
    THEN [self |-> self, bFound |-> FALSE, idxs |-> idxs, next_idx |-> Written(0)]
    ELSE IF stardict_strcmp(str, self.real_last.keystr) > 0
    THEN [self |-> self, bFound |-> FALSE, idxs |-> idxs,
          next_idx |-> Written(INVALID_INDEX)]
    ELSE
    LET PageKeys == [p \in 1..(Len(self.wordoffset) - 1) |->
                        get_first_on_page_key(self, p - 1)]
        \* the two walks from iThisIndex, the second on what the first left
        Ahead(ahead) ==
            [self |-> ahead.self, bFound |-> TRUE, idxs |-> ahead.idxs,
             next_idx |-> next_idx]
        Back(back, iThisIndex) ==
            Ahead(OI_WalkAhead(back.self, str, iThisIndex, back.idxs))
        \* after the search in the page: inner holds its variables
        Inner(iPage, paged, inner) ==
            IF ~inner.bFound
            THEN [self |-> paged, bFound |-> FALSE, idxs |-> idxs,
                  next_idx |-> Written(OI_next_idx(iPage, inner.iFrom))]
            ELSE Back(OI_WalkBack(paged, str,
                                  iPage * ENTR_PER_PAGE + inner.iThisIndex - 1, idxs),
                      iPage * ENTR_PER_PAGE + inner.iThisIndex)
        \* a page key that is hit is entry 0 of its page; otherwise the page
        \* is loaded and searched
        Paged(outer, iPage, paged) ==
            Inner(iPage, paged,
                  IF outer.bFound
                  THEN [bFound |-> TRUE, iThisIndex |-> 0, iFrom |-> outer.iFrom,
                        iTo |-> outer.iTo]
                  ELSE BinarySearch(str, paged.page.entries, 0,
                                    load_page_nentr(self, iPage) - 1, outer.iThisIndex))
        Page(outer, iPage) ==
            Paged(outer, iPage, IF outer.bFound THEN self ELSE load_page(self, iPage))
        \* after the search among the pages: outer holds its variables
        Outer(outer) == Page(outer, IF outer.bFound THEN outer.iThisIndex ELSE outer.iTo)
    IN  Outer(BinarySearch(str, PageKeys, 0, Len(self.wordoffset) - 2, 0))

(*-------------------------------- SynFile --------------------------------*)

\* SynFile::load: a .syn file that exists gives wc + 1 pointers, of which the
\* first wc are entries [key, idx] (idx is the big-endian u32 after the key);
\* without the file synlist stays empty.
SynFile_load(exists, file, wc) ==
    IF exists THEN [size |-> wc + 1, synlist |-> SubSeq(file, 1, wc)]
    ELSE [size |-> 0, synlist |-> <<>>]

SynFile_get_key(self, idx) == El(self.synlist, idx).key

\* g_ntohl(get_uint32(key + strlen(key) + 1)) of the entry at idx.
SynFile_target(self, idx) == El(self.synlist, idx).idx

\* Mutant of Syn_WalkAhead: the position in the .syn list is inserted
\* instead of the main-index position the entry refers to.
RECURSIVE Syn_WalkAhead_OwnPosition(_, _, _, _)
Syn_WalkAhead_OwnPosition(self, str, iThisIndex, iLast) ==
    {iThisIndex} \cup
        IF iThisIndex + 1 <= iLast
           /\ stardict_strcmp(str, SynFile_get_key(self, iThisIndex + 1)) = 0
        THEN Syn_WalkAhead_OwnPosition(self, str, iThisIndex + 1, iLast)
        ELSE {}

RECURSIVE Syn_WalkBack(_, _, _)
Syn_WalkBack(self, str, iHeadIndex) ==
    IF iHeadIndex >= 0 /\ stardict_strcmp(str, SynFile_get_key(self, iHeadIndex)) = 0
    THEN {SynFile_target(self, iHeadIndex)} \cup Syn_WalkBack(self, str, iHeadIndex - 1)
    ELSE {}

RECURSIVE Syn_WalkAhead(_, _, _, _)
Syn_WalkAhead(self, str, iThisIndex, iLast) ==
    {SynFile_target(self, iThisIndex)} \cup
        IF iThisIndex + 1 <= iLast
           /\ stardict_strcmp(str, SynFile_get_key(self, iThisIndex + 1)) = 0
        THEN Syn_WalkAhead(self, str, iThisIndex + 1, iLast)
        ELSE {}

\* SynFile::lookup(str, idxs, next_idx).
SynFile_lookup(self, str, idxs, next_idx) ==
    LET iLast == self.size - 2
        keys  == [i \in 1..Len(self.synlist) |-> self.synlist[i].key]
        \* what follows the binary search, whose variables are b
        Searched(b) ==
            IF ~b.bFound
            THEN [bFound |-> FALSE, idxs |-> idxs, next_idx |-> Written(b.iFrom)]
            ELSE [bFound |-> TRUE,
                  idxs |-> idxs \cup Syn_WalkBack(self, str, b.iThisIndex - 1)
                                \cup Syn_WalkAhead(self, str, b.iThisIndex, iLast),
                  next_idx |-> next_idx]
    IN  IF iLast < 0
        THEN [bFound |-> FALSE, idxs |-> idxs, next_idx |-> next_idx]
        ELSE IF stardict_strcmp(str, SynFile_get_key(self, 0)) < 0
        THEN [bFound |-> FALSE, idxs |-> idxs, next_idx |-> Written(0)]
        ELSE IF stardict_strcmp(str, SynFile_get_key(self, iLast)) > 0
        THEN [bFound |-> FALSE, idxs |-> idxs, next_idx |-> Written(INVALID_INDEX)]
        ELSE Searched(BinarySearch(str, keys, 0, iLast, 0))

(*---------------------------------- Dict ---------------------------------*)

idx_file_load(file, gz) ==
    IF gz THEN WordListIndex_load(file, Len(file)) ELSE OffsetIndex_load(file, Len(file))

idx_file_lookup(idx_file, str, idxs, next_idx) ==
    IF idx_file.kind = "WordListIndex"
    THEN WordListIndex_lookup(idx_file, str, idxs, next_idx)
    ELSE OffsetIndex_lookup(idx_file, str, idxs, next_idx)

idx_file_get_key(idx_file, idx) ==
    IF idx_file.kind = "WordListIndex"
    THEN WordListIndex_get_key(idx_file, idx)
    ELSE OffsetIndex_get_key(idx_file, idx).key

\* Dict::load: the index kind is chosen by the presence of .idx.gz, then
\* the .syn file is loaded if it exists.
Dict_load(file, gz, synexists, synfile) ==
    [idx_file |-> idx_file_load(file, gz),
     syn_file |-> SynFile_load(synexists, synfile, Len(synfile))]

\* Dict::Lookup(str, idxs, next_idx): the synonym lookup, then the index
\* lookup, on the same idxs and next_idx.
Dict_Lookup(self, str, idxs, next_idx) ==
    LET Both(syn, idx) ==
            [self |-> [self EXCEPT !.idx_file = idx.self],
             bFound |-> syn.bFound \/ idx.bFound,
             idxs |-> idx.idxs, next_idx |-> idx.next_idx]
        Syn(syn) == Both(syn, idx_file_lookup(self.idx_file, str, syn.idxs, syn.next_idx))
    IN  Syn(SynFile_lookup(self.syn_file, str, idxs, next_idx))

(*------------------------- Libs: LookupSimilarWord -----------------------*)

\* The case mapping of the second byte of a two-byte UTF-8 sequence led by
\* 0xC3 (U+00C0..U+00FF): U+00C0..U+00DE without U+00D7 are the capitals
\* of U+00E0..U+00FE.  (U+00DF and U+00FF, whose capitals lie elsewhere,
\* are not among the words the specifications use.)
Latin1Case(b, up) ==
    IF up /\ b >= 160 /\ b <= 190 /\ b # 183 THEN b - 32
    ELSE IF ~up /\ b >= 128 /\ b <= 158 /\ b # 151 THEN b + 32
    ELSE b

RECURSIVE Utf8CaseFrom(_, _, _)
Utf8CaseFrom(s, i, up) ==
    IF i > Len(s) THEN <<>>
    ELSE IF s[i] < 128
    THEN <<IF up THEN g_ascii_toupper(s[i]) ELSE g_ascii_tolower(s[i])>>
         \o Utf8CaseFrom(s, i + 1, up)
    ELSE IF s[i] = 195 /\ i < Len(s)
    THEN <<195, Latin1Case(s[i + 1], up)>> \o Utf8CaseFrom(s, i + 2, up)
    ELSE <<s[i]>> \o Utf8CaseFrom(s, i + 1, up)

g_utf8_strdown(s) == Utf8CaseFrom(s, 1, FALSE)
g_utf8_strup(s) == Utf8CaseFrom(s, 1, TRUE)

\* The number of bytes g_utf8_next_char skips over the character led by b.
g_utf8_skip(b) ==
    IF b < 192 THEN 1 ELSE IF b < 224 THEN 2 ELSE IF b < 240 THEN 3 ELSE 4

g_ascii_strdown(s) == [i \in 1..Len(s) |-> g_ascii_tolower(s[i])]

bIsVowel(inputchar) ==
    g_ascii_toupper(inputchar) \in {Code("A"), Code("E"), Code("I"), Code("O"), Code("U")}

bIsPureEnglish(str) == \A i \in 1..Len(str) : str[i] < 128

\* The first n bytes of s (a NUL written at s[n]).
Prefix(s, n) == SubSeq(s, 1, n)

\* !strncmp(&sWord[iWordLen - Len(suffix)], suffix, Len(suffix)).
EndsWith(sWord, suffix) ==
    /\ Len(sWord) >= Len(suffix)
    /\ SubSeq(sWord, Len(sWord) - Len(suffix) + 1, Len(sWord)) = suffix

\* oLib[iLib]->Lookup(str, iWordIndices) on the cascade's state st: the
\* dictionary (whose page buffer the lookup may reload), bFound and
\* iWordIndices.  looked is the history of the lookups made: the word and
\* what Lookup returned.
TryLookup(st, str) ==
    LET Looked(r) == [self |-> r.self, bFound |-> r.bFound, idxs |-> r.idxs,
                      looked |-> Append(st.looked, [str |-> str, found |-> r.bFound])]
    IN  Looked(Dict_Lookup(st.self, str, st.idxs, NotWritten))

\* Mutant of TryWords: the words are looked up to the last one.
RECURSIVE TryWords_NoStop(_, _)
TryWords_NoStop(st, words) ==
    IF words = <<>> THEN st
    ELSE TryWords_NoStop([TryLookup(st, Head(words)) EXCEPT
                              !.bFound = @ \/ st.bFound], Tail(words))

\* The lookups of LookupSimilarWord are all made under "if (!bFound)" and
\* set bFound on a hit, and the word each looks up depends on sWord alone:
\* the function looks up a sequence of words up to the first hit.
RECURSIVE TryWords(_, _)
TryWords(st, words) ==
    IF st.bFound \/ words = <<>> THEN st
    ELSE TryWords(TryLookup(st, Head(words)), Tail(words))

\* The words looked up by "if (Lookup(sNewWord)) bFound = true; else if
\* (lower) { casestr = g_ascii_strdown(sNewWord); if (strcmp(casestr,
\* sNewWord)) if (Lookup(casestr)) bFound = true; }".
TryCased(sNewWord, lower) ==
    IF lower /\ g_ascii_strdown(sNewWord) # sNewWord
    THEN <<sNewWord, g_ascii_strdown(sNewWord)>>
    ELSE <<sNewWord>>

\* "if (strcmp(casestr, sWord)) if (Lookup(casestr)) bFound = true;"
TryOther(casestr, sWord) == IF strcmp(casestr, sWord) # 0 THEN <<casestr>> ELSE <<>>

\* The case variants: all lower, all upper, first character upper and the
\* rest lower; each is looked up only if it differs from sWord.
CaseVariants(sWord) ==
    LET skip == g_utf8_skip(At(sWord, 0))
    IN  TryOther(g_utf8_strdown(sWord), sWord)
        \o TryOther(g_utf8_strup(sWord), sWord)
        \o TryOther(g_utf8_strup(Prefix(sWord, skip))
                    \o g_utf8_strdown(SubSeq(sWord, skip + 1, Len(sWord))), sWord)

\* Mutant of a suffix rule: the rule is skipped.
Rule_None(sWord) == <<>>

\* cut one char "s" or "d"
Rule_s_d(sWord) ==
    LET iWordLen == Len(sWord)
        isupcase == At(sWord, iWordLen - 1) = Code("S") \/ EndsWith(sWord, Str(<<"E","D">>))
    IN  IF iWordLen > 1
           /\ (isupcase \/ At(sWord, iWordLen - 1) = Code("s")
                        \/ EndsWith(sWord, Str(<<"e","d">>)))
        THEN TryCased(Prefix(sWord, iWordLen - 1),
                      isupcase \/ g_ascii_isupper(At(sWord, 0)))
        ELSE <<>>

\* The stem sNewWord of length n ends in a doubled consonant after a vowel.
Doubled(sNewWord, n) ==
    /\ At(sNewWord, n - 1) = At(sNewWord, n - 2)
    /\ ~bIsVowel(At(sNewWord, n - 2))
    /\ bIsVowel(At(sNewWord, n - 3))

\* cut "ly": the stem without its doubled letter, then the stem.
Rule_ly(sWord) ==
    LET iWordLen == Len(sWord)
        isupcase == EndsWith(sWord, Str(<<"L","Y">>))
        lower    == isupcase \/ g_ascii_isupper(At(sWord, 0))
        sNewWord == Prefix(sWord, iWordLen - 2)
    IN  IF iWordLen > 2 /\ (isupcase \/ EndsWith(sWord, Str(<<"l","y">>)))
        THEN (IF iWordLen > 5 /\ Doubled(sNewWord, iWordLen - 2)
              THEN TryCased(Prefix(sWord, iWordLen - 3), lower) ELSE <<>>)
             \o TryCased(sNewWord, lower)
        ELSE <<>>

\* cut "ing": the stem without its doubled letter, the stem, the stem with
\* "e" added.
Rule_ing(sWord) ==
    LET iWordLen == Len(sWord)
        isupcase == EndsWith(sWord, Str(<<"I","N","G">>))
        lower    == isupcase \/ g_ascii_isupper(At(sWord, 0))
        sNewWord == Prefix(sWord, iWordLen - 3)
    IN  IF iWordLen > 3 /\ (isupcase \/ EndsWith(sWord, Str(<<"i","n","g">>)))
        THEN (IF iWordLen > 6 /\ Doubled(sNewWord, iWordLen - 3)
              THEN TryCased(Prefix(sWord, iWordLen - 4), lower) ELSE <<>>)
             \o TryCased(sNewWord, lower)
             \o TryCased(sNewWord \o (IF isupcase THEN Str(<<"E">>) ELSE Str(<<"e">>)),
                         lower)
        ELSE <<>>

\* The test of the "es" rule on the letters before the suffix, with the
\* letters in the case of the suffix.
EsStem(sWord, es, sxo, h, cs) ==
    LET iWordLen == Len(sWord)
    IN  /\ EndsWith(sWord, es)
        /\ \/ At(sWord, iWordLen - 3) \in sxo
           \/ /\ iWordLen > 4
              /\ At(sWord, iWordLen - 3) = h
              /\ At(sWord, iWordLen - 4) \in cs

\* cut two char "es"
Rule_es(sWord) ==
    LET iWordLen == Len(sWord)
        isupcase == EsStem(sWord, Str(<<"E","S">>), {Code("S"), Code("X"), Code("O")},
                           Code("H"), {Code("C"), Code("S")})
    IN  IF iWordLen > 3
           /\ (isupcase \/ EsStem(sWord, Str(<<"e","s">>),
                                  {Code("s"), Code("x"), Code("o")},
                                  Code("h"), {Code("c"), Code("s")}))
        THEN TryCased(Prefix(sWord, iWordLen - 2),
                      isupcase \/ g_ascii_isupper(At(sWord, 0)))
        ELSE <<>>

\* cut "ed": the stem without its doubled letter, then the stem.
Rule_ed(sWord) ==
    LET iWordLen == Len(sWord)
        isupcase == EndsWith(sWord, Str(<<"E","D">>))
        lower    == isupcase \/ g_ascii_isupper(At(sWord, 0))
        sNewWord == Prefix(sWord, iWordLen - 2)
    IN  IF iWordLen > 3 /\ (isupcase \/ EndsWith(sWord, Str(<<"e","d">>)))
        THEN (IF iWordLen > 5 /\ Doubled(sNewWord, iWordLen - 2)
              THEN TryCased(Prefix(sWord, iWordLen - 3), lower) ELSE <<>>)
             \o TryCased(sNewWord, lower)
        ELSE <<>>

\* The rules that cut a suffix, written upper in capitals and lower in
\* small letters, from a word longer than minlen and add the letter
\* addUpper or addLower ("" for none).
Rule_cut(sWord, minlen, upper, lower, addUpper, addLower) ==
    LET iWordLen == Len(sWord)
        isupcase == EndsWith(sWord, upper)
    IN  IF iWordLen > minlen /\ (isupcase \/ EndsWith(sWord, lower))
        THEN TryCased(Prefix(sWord, iWordLen - Len(upper))
                      \o (IF isupcase THEN addUpper ELSE addLower),
                      isupcase \/ g_ascii_isupper(At(sWord, 0)))
        ELSE <<>>

\* cut "ied" , add "y".
Rule_ied(sWord) ==
    Rule_cut(sWord, 3, Str(<<"I","E","D">>), Str(<<"i","e","d">>),
             Str(<<"Y">>), Str(<<"y">>))

\* cut "ies" , add "y".
Rule_ies(sWord) ==
    Rule_cut(sWord, 3, Str(<<"I","E","S">>), Str(<<"i","e","s">>),
             Str(<<"Y">>), Str(<<"y">>))

\* cut "er".
Rule_er(sWord) ==
    Rule_cut(sWord, 2, Str(<<"E","R">>), Str(<<"e","r">>), <<>>, <<>>)

\* cut "est".
Rule_est(sWord) ==
    Rule_cut(sWord, 3, Str(<<"E","S","T">>), Str(<<"e","s","t">>), <<>>, <<>>)

\* The words Libs::LookupSimilarWord looks up for sWord, in order.
SimilarWords(sWord) ==
    CaseVariants(sWord)
    \o (IF bIsPureEnglish(sWord)
        THEN Rule_s_d(sWord) \o Rule_ly(sWord) \o Rule_ing(sWord) \o Rule_es(sWord)
             \o Rule_ed(sWord) \o Rule_ied(sWord) \o Rule_ies(sWord) \o Rule_er(sWord)
             \o Rule_est(sWord)
        ELSE <<>>)

\* Libs::LookupSimilarWord(sWord, iWordIndices, iLib) on dictionary self
\* with iWordIndices holding idxs.
LookupSimilarWord(self, sWord, idxs) ==
    TryWords([self |-> self, bFound |-> FALSE, idxs |-> idxs, looked |-> <<>>],
             SimilarWords(sWord))

\* Libs::SimpleLookupWord(sWord, iWordIndices, iLib).
SimpleLookupWord(self, fuzzy, sWord, idxs) ==
    LET Both(st, similar) == [similar EXCEPT !.looked = st.looked \o @]
        Similar(st) ==
            IF ~st.bFound /\ fuzzy
            THEN Both(st, LookupSimilarWord(st.self, sWord, st.idxs))
            ELSE st
    IN  Similar(TryLookup([self |-> self, bFound |-> FALSE, idxs |-> idxs,
                           looked |-> <<>>], sWord))

(*-------------------------- Libs: LookupWithFuzzy ------------------------*)

\* poGetWord(index, iLib) and narticles(iLib) on a dictionary.
poGetWord(dict, index) == idx_file_get_key(dict.idx_file, index)
narticles(dict) == dict.idx_file.wordcount

\* g_utf8_to_ucs4_fast: the code points of a UTF-8 string (the strings of
\* the specifications have code points below U+0800: one or two bytes).
RECURSIVE Ucs4From(_, _)
Ucs4From(s, i) ==
    IF i > Len(s) THEN <<>>
    ELSE IF s[i] >= 192 /\ i < Len(s)
    THEN <<(s[i] - 192) * 64 + (s[i + 1] - 128)>> \o Ucs4From(s, i + 2)
    ELSE <<s[i]>> \o Ucs4From(s, i + 1)

g_utf8_to_ucs4_fast(s) == Ucs4From(s, 1)

g_utf8_strlen(s) == Len(g_utf8_to_ucs4_fast(s))

\* g_unichar_tolower on the code points below U+0100.
g_unichar_tolower(c) ==
    IF c >= 65 /\ c <= 90 THEN c + 32
    ELSE IF c >= 192 /\ c <= 222 /\ c # 215 THEN c + 32
    ELSE c

unicode_strdown(str) == [i \in 1..Len(str) |-> g_unichar_tolower(str[i])]

Min2(a, b) == IF a < b THEN a ELSE b

\* Row i of the Levenshtein matrix of s against t from row i - 1: cell 0 is
\* i, cell j the cheapest of a deletion, an insertion and a substitution.
RECURSIVE LevRowFrom(_, _, _, _, _)
LevRowFrom(prev, cur, s, t, i) ==
    IF Len(cur) = Len(t) + 1 THEN cur
    ELSE LET j    == Len(cur)
             cost == IF s[i] = t[j] THEN 0 ELSE 1
             cell == Min2(Min2(prev[j + 1] + 1, cur[j] + 1), prev[j] + cost)
         IN  LevRowFrom(prev, Append(cur, cell), s, t, i)

RECURSIVE LevRows(_, _, _, _, _)
LevRows(prev, s, t, i, limit) ==
    IF i > Len(s) THEN prev[Len(t) + 1]
    ELSE LET row == LevRowFrom(prev, <<i>>, s, t, i)
         IN  IF \A j \in 1..Len(row) : row[j] >= limit THEN limit
             ELSE LevRows(row, s, t, i + 1, limit)

\* EditDistance::CalEditDistance(s, t, limit): Levenshtein distance over
\* code points; as soon as no cell of a row is below limit, limit is
\* returned.
CalEditDistance(s, t, limit) ==
    LevRows([j \in 1..(Len(t) + 1) |-> j - 1], s, t, 1, limit)

\* Libs::iMaxFuzzyDistance.
iMaxFuzzyDistance == 3

\* A gchar * is <<>> (nullptr) or <<str>>.
nullptr == <<>>
g_strdup(str) == <<str>>

\* A scanned headword is skipped when its length is too far from the
\* query's.
SkipByLength(iCheckWordLen, ucs4_str2_len, iMaxDistance) ==
    \/ iCheckWordLen - ucs4_str2_len >= iMaxDistance
    \/ ucs4_str2_len - iCheckWordLen >= iMaxDistance

\* ucs4_str1: the headword's code points, cut to the query's length if
\* longer, then lower-cased.
FuzzyCandidate(sCheck, ucs4_str2_len) ==
    LET ucs4_str1 == g_utf8_to_ucs4_fast(sCheck)
    IN  unicode_strdown(IF Len(ucs4_str1) > ucs4_str2_len
                        THEN SubSeq(ucs4_str1, 1, ucs4_str2_len) ELSE ucs4_str1)

\* Mutant of FuzzyAdmits: the query's length does not bound the distance.
FuzzyAdmits_NoLengthBound(iDistance, iMaxDistance, ucs4_str2_len) ==
    iDistance < iMaxDistance

FuzzyAdmits(iDistance, iMaxDistance, ucs4_str2_len) ==
    iDistance < iMaxDistance /\ iDistance < ucs4_str2_len

\* Mutant of FuzzyScanSlots: the slot to replace is always slot 0.
FuzzyScanSlots_FirstSlot(oFuzzystruct, sCheck, iMaxDistance, j, iMaxDistanceAt) ==
    [bAlreadyInList |->
         \E k \in 1..Len(oFuzzystruct) :
             /\ oFuzzystruct[k].pMatchWord # nullptr
             /\ strcmp(oFuzzystruct[k].pMatchWord[1], sCheck) = 0,
     iMaxDistanceAt |-> 0]

\* The scan of the slots for an admitted headword: the loop stops at the
\* first slot that holds sCheck; iMaxDistanceAt is the last slot seen whose
\* distance is iMaxDistance (slot 0 if there is none).
RECURSIVE FuzzyScanSlots(_, _, _, _, _)
FuzzyScanSlots(oFuzzystruct, sCheck, iMaxDistance, j, iMaxDistanceAt) ==
    IF j >= Len(oFuzzystruct)
    THEN [bAlreadyInList |-> FALSE, iMaxDistanceAt |-> iMaxDistanceAt]
    ELSE IF El(oFuzzystruct, j).pMatchWord # nullptr
            /\ strcmp(El(oFuzzystruct, j).pMatchWord[1], sCheck) = 0
    THEN [bAlreadyInList |-> TRUE, iMaxDistanceAt |-> iMaxDistanceAt]
    ELSE FuzzyScanSlots(oFuzzystruct, sCheck, iMaxDistance, j + 1,
                        IF El(oFuzzystruct, j).iMatchWordDistance = iMaxDistance
                        THEN j ELSE iMaxDistanceAt)

\* Mutant of NewMaxDistance: the threshold becomes the distance of the
\* headword just stored.
NewMaxDistance_JustStored(oFuzzystruct, iDistance) == iDistance

\* "calc new iMaxDistance": the largest distance held by a slot.
NewMaxDistance(oFuzzystruct, iDistance) ==
    LET ds == {oFuzzystruct[j].iMatchWordDistance : j \in 1..Len(oFuzzystruct)}
             \cup {iDistance}
    IN  CHOOSE d \in ds : \A e \in ds : e <= d

\* The body of the loop over the headwords of a dictionary, on the
\* function's locals f, for the headword sCheck.
FuzzyLoopBody(f, sCheck) ==
    LET iCheckWordLen == g_utf8_strlen(sCheck)
        ucs4_str2_len == Len(f.ucs4_str2)
        iDistance == CalEditDistance(FuzzyCandidate(sCheck, ucs4_str2_len),
                                     f.ucs4_str2, f.iMaxDistance)
        scan == FuzzyScanSlots(f.oFuzzystruct, sCheck, f.iMaxDistance, 0, 0)
        slots == [f.oFuzzystruct EXCEPT ![scan.iMaxDistanceAt + 1] =
                     [pMatchWord |-> g_strdup(sCheck), iMatchWordDistance |-> iDistance]]
    IN  IF SkipByLength(iCheckWordLen, ucs4_str2_len, f.iMaxDistance) THEN f
        ELSE IF ~FuzzyAdmits(iDistance, f.iMaxDistance, ucs4_str2_len) THEN f
        ELSE IF scan.bAlreadyInList THEN [f EXCEPT !.Found = TRUE]
        ELSE [f EXCEPT !.Found = TRUE, !.oFuzzystruct = slots,
                       !.iMaxDistance = NewMaxDistance(slots, iDistance)]

\* Mutant of FuzzyLess: slots are ordered by distance alone.
FuzzyLess_DistanceOnly(lh, rh) == lh.iMatchWordDistance < rh.iMatchWordDistance

\* The comparison std::sort is given.
FuzzyLess(lh, rh) ==
    IF lh.iMatchWordDistance # rh.iMatchWordDistance
    THEN lh.iMatchWordDistance < rh.iMatchWordDistance
    ELSE IF lh.pMatchWord # nullptr /\ rh.pMatchWord # nullptr
    THEN stardict_strcmp(lh.pMatchWord[1], rh.pMatchWord[1]) < 0
    ELSE FALSE

\* std::sort of the slots: x is put before the first slot it is less than.
RECURSIVE FuzzySortInsert(_, _)
FuzzySortInsert(sorted, x) ==
    IF sorted = <<>> THEN <<x>>
    ELSE IF FuzzyLess(x, Head(sorted)) THEN <<x>> \o sorted
    ELSE <<Head(sorted)>> \o FuzzySortInsert(Tail(sorted), x)

RECURSIVE FuzzySort(_)
FuzzySort(slots) ==
    IF slots = <<>> THEN <<>>
    ELSE FuzzySortInsert(FuzzySort(SubSeq(slots, 1, Len(slots) - 1)), slots[Len(slots)])

(*-------------------------- Libs: LookupWithRule -------------------------*)

\* The number of matches a dictionary may contribute to a pattern lookup.
\* The value is set in stardict_lib.hpp; the model takes a small one.
MAX_MATCH_ITEM_PER_LIB == 2

\* g_pattern_spec_match_string: pattern and str are strings of code points;
\* '*' matches any run of characters, '?' any one character.
Wildcard_any == Code("*")
Wildcard_one == Code("?")

RECURSIVE GlobMatch(_, _, _, _)
GlobMatch(pattern, str, i, j) ==
    IF i > Len(pattern) THEN j > Len(str)
    ELSE IF pattern[i] = Wildcard_any
    THEN GlobMatch(pattern, str, i + 1, j)
         \/ (j <= Len(str) /\ GlobMatch(pattern, str, i, j + 1))
    ELSE IF j > Len(str) THEN FALSE
    ELSE IF pattern[i] = Wildcard_one \/ pattern[i] = str[j]
    THEN GlobMatch(pattern, str, i + 1, j + 1)
    ELSE FALSE

g_pattern_spec_new(word) == g_utf8_to_ucs4_fast(word)

\* Mutant of g_pattern_spec_match_string: the pattern's characters are all
\* taken literally.
g_pattern_spec_match_string_Literal(pspec, str) == pspec = g_utf8_to_ucs4_fast(str)

g_pattern_spec_match_string(pspec, str) ==
    GlobMatch(pspec, g_utf8_to_ucs4_fast(str), 1, 1)

\* Mutant of RuleRoomLeft: the cell kept for the terminator is filled too.
RuleRoomLeft_NoTerminatorCell(iIndexCount, iBuffLen) == iIndexCount < iBuffLen

\* The loop of Dict::LookupWithRule goes on while a cell is free before
\* the last one.
RuleRoomLeft(iIndexCount, iBuffLen) == iIndexCount < (iBuffLen - 1)

\* The loop of Dict::LookupWithRule from headword i on: aIndex is the part
\* of the buffer written so far.
RECURSIVE RuleLoop(_, _, _, _, _)
RuleLoop(self, pspec, aIndex, iBuffLen, i) ==
    IF i < narticles(self) /\ RuleRoomLeft(Len(aIndex), iBuffLen)
    THEN RuleLoop(self, pspec,
                  IF g_pattern_spec_match_string(pspec, poGetWord(self, i))
                  THEN Append(aIndex, i) ELSE aIndex,
                  iBuffLen, i + 1)
    ELSE aIndex

\* Dict::LookupWithRule(pspec, aIndex, iBuffLen): aIndex is returned as the
\* cells written, the matches and the terminator -1.
Dict_LookupWithRule(self, pspec, iBuffLen) ==
    LET matches == RuleLoop(self, pspec, <<>>, iBuffLen, 0)
    IN  [found |-> Len(matches) > 0, aIndex |-> Append(matches, -1),
         iIndexCount |-> Len(matches)]

\* The loop over aiIndex up to the terminator: each headword not yet in
\* ppMatchWord is appended.
RECURSIVE RuleCollect(_, _, _, _)
RuleCollect(dict, aiIndex, i, ppMatchWord) ==
    IF El(aiIndex, i) = -1 THEN ppMatchWord
    ELSE LET sMatchWord == poGetWord(dict, El(aiIndex, i))
             bAlreadyInList ==
                 \E j \in 1..Len(ppMatchWord) : strcmp(ppMatchWord[j], sMatchWord) = 0
         IN  RuleCollect(dict, aiIndex, i + 1,
                         IF bAlreadyInList THEN ppMatchWord
                         ELSE Append(ppMatchWord, sMatchWord))

\* std::sort of the matched headwords by stardict_strcmp.
RECURSIVE WordSortInsert(_, _)
WordSortInsert(sorted, x) ==
    IF sorted = <<>> THEN <<x>>
    ELSE IF stardict_strcmp(x, Head(sorted)) < 0 THEN <<x>> \o sorted
    ELSE <<Head(sorted)>> \o WordSortInsert(Tail(sorted), x)

RECURSIVE WordSort(_)
WordSort(words) ==
    IF words = <<>> THEN <<>>
    ELSE WordSortInsert(WordSort(SubSeq(words, 1, Len(words) - 1)), words[Len(words)])

\* The loop of Libs::LookupWithRule over the dictionaries from iLib on;
\* perLib collects what each Dict::LookupWithRule wrote.
RECURSIVE RuleLibs(_, _, _, _, _)
RuleLibs(libs, pspec, iLib, ppMatchWord, perLib) ==
    IF iLib >= Len(libs) THEN [ppMatchWord |-> ppMatchWord, perLib |-> perLib]
    ELSE LET r == Dict_LookupWithRule(El(libs, iLib), pspec, MAX_MATCH_ITEM_PER_LIB + 1)
         IN  RuleLibs(libs, pspec, iLib + 1,
                      IF r.found THEN RuleCollect(El(libs, iLib), r.aIndex, 0, ppMatchWord)
                      ELSE ppMatchWord,
                      Append(perLib, r))

\* Libs::LookupWithRule(word, ppMatchWord).
Libs_LookupWithRule(libs, word) ==
    LET r == RuleLibs(libs, g_pattern_spec_new(word), 0, <<>>, <<>>)
    IN  [iMatchCount |-> Len(r.ppMatchWord),
         ppMatchWord |-> IF Len(r.ppMatchWord) # 0 THEN WordSort(r.ppMatchWord)
                         ELSE r.ppMatchWord,
         perLib |-> r.perLib]

\* The dictionaries after Libs::LookupWithRule: an OffsetIndex holds the
\* page of the headword read last, the last match collected or, without a
\* match, the last headword of the scan.
AfterRule(libs, perLib) ==
    [l \in 1..Len(libs) |->
        IF libs[l].idx_file.kind = "OffsetIndex"
        THEN [libs[l] EXCEPT !.idx_file =
                 OffsetIndex_get_key(libs[l].idx_file,
                     IF perLib[l].found
                     THEN El(perLib[l].aIndex, perLib[l].iIndexCount - 1)
                     ELSE narticles(libs[l]) - 1).self]
        ELSE libs[l]]

(***************************************************************************)
(* Specification SpecCmp: stardict_strcmp applied to three strings         *)
(***************************************************************************)
MaxCmpLen == 2

\* 'A', 'B', 'a' and a byte >= 0x80 (the lead byte of a two-byte UTF-8
\* sequence).
CmpAlphabet == {65, 66, 97, 195}

CmpStrings == StringsUpTo(CmpAlphabet, MaxCmpLen)

NoCmp == [done |-> FALSE]
NoCall == [op |-> "none"]
NoFuzzy == [active |-> FALSE]
NoDisk == [idx |-> "none"]

InitCmp ==
    /\ s1 \in CmpStrings
    /\ s2 \in CmpStrings
    /\ s3 \in CmpStrings
    /\ cmp = NoCmp
    /\ oLib = <<>>
    /\ fuzzy_ = FALSE
    /\ fz = NoFuzzy
    /\ ret = NoCall
    /\ disk = NoDisk

\* Libs::Libs: no dictionary is loaded and no call has been made.
InitLibs ==
    /\ oLib = <<>>
    /\ fuzzy_ = FALSE
    /\ fz = NoFuzzy
    /\ ret = NoCall
    /\ s1 = <<>> /\ s2 = <<>> /\ s3 = <<>> /\ cmp = NoCmp
    /\ disk = NoDisk

Compare ==
    /\ cmp = NoCmp
    /\ cmp' = [done |-> TRUE,
               aa |-> stardict_strcmp(s1, s1),
               ab |-> stardict_strcmp(s1, s2),
               ba |-> stardict_strcmp(s2, s1),
               bc |-> stardict_strcmp(s2, s3),
               ac |-> stardict_strcmp(s1, s3)]
    /\ UNCHANGED <<s1, s2, s3, oLib, fuzzy_, fz, ret, disk>>

NextCmp == Compare

SpecCmp == InitCmp /\ [][NextCmp]_vars

\* C4: stardict_strcmp is a total order on headword strings: cmp(a,a) = 0,
\* sign(cmp(a,b)) = -sign(cmp(b,a)), cmp(a,b) = 0 only when a and b are
\* byte-identical, and cmp(a,b) < 0 and cmp(b,c) < 0 imply cmp(a,c) < 0.
C4_TotalOrder ==
    cmp.done =>
        /\ cmp.aa = 0
        /\ Sign(cmp.ab) = -Sign(cmp.ba)
        /\ (cmp.ab = 0 => s1 = s2)
        /\ (cmp.ab < 0 /\ cmp.bc < 0 => cmp.ac < 0)

\* A chain a < b < c whose first link is decided by the tiebreak alone ("A"
\* before "a") and whose second link is decided by the primary against the
\* byte order ("a" before "B", although 'B' < 'a' as bytes).
C4_Witness ==
    /\ cmp.done
    /\ s1 = <<65>> /\ s2 = <<97>> /\ s3 = <<66>>
    /\ cmp.ab < 0 /\ cmp.bc < 0 /\ cmp.ac < 0

(***************************************************************************)
(* Specification SpecIndex: one dictionary is loaded from a sorted .idx    *)
(* file (as .idx.gz into a WordListIndex, as .idx into an OffsetIndex) and *)
(* its index is looked up any number of times                              *)
(***************************************************************************)
NKeys == 3

\* Keys in ascending comparator order.
KeyUniverse == <<Str(<<"A">>), Str(<<"a">>), Str(<<"a","b">>), Str(<<"B">>),
                 Str(<<"b","a">>), Str(<<"b","b">>)>>

\* How often a key is repeated in a file: absent, once, a page full, and
\* one more than a page.
RunLens == {0, 1, ENTR_PER_PAGE, ENTR_PER_PAGE + 1}

Repeat(x, n) == [i \in 1..n |-> x]

\* The file holding runs[k] copies of key k, for k = 1..n, in key order.
RECURSIVE FileOfRuns(_, _)
FileOfRuns(runs, n) ==
    IF n = 0 THEN <<>>
    ELSE FileOfRuns(runs, n - 1) \o Repeat(KeyUniverse[n], runs[n])

IndexFiles ==
    {FileOfRuns(runs, NKeys) : runs \in [1..NKeys -> RunLens]} \ {<<>>}

\* The stored keys, the empty string (below every key) and "c" (above).
IndexQueries == {KeyUniverse[k] : k \in 1..NKeys} \cup {<<>>, Str(<<"c">>)}

\* Libs::load_dict of a dictionary whose index file is file.
LoadIndex ==
    /\ oLib = <<>>
    /\ \E file \in IndexFiles, gz \in BOOLEAN :
          oLib' = <<Dict_load(file, gz, FALSE, <<>>)>>
    /\ ret' = NoCall
    /\ UNCHANGED <<s1, s2, s3, cmp, fuzzy_, fz, disk>>

\* idx_file->lookup(str, idxs, next_idx) with idxs empty and next_idx not
\* yet written.
IndexLookup ==
    /\ oLib # <<>>
    /\ \E str \in IndexQueries :
          \E r \in {idx_file_lookup(oLib[1].idx_file, str, {}, NotWritten)} :
              /\ oLib' = <<[oLib[1] EXCEPT !.idx_file = r.self]>>
              /\ ret' = [op |-> "lookup", str |-> str, bFound |-> r.bFound,
                         idxs |-> r.idxs, next_idx |-> r.next_idx]
    /\ UNCHANGED <<s1, s2, s3, cmp, fuzzy_, fz, disk>>

NextIndex == LoadIndex \/ IndexLookup

SpecIndex == InitLibs /\ [][NextIndex]_vars

\* The keys of the loaded index, as the file holds them.
StoredKeys(idx_file) ==
    IF idx_file.kind = "WordListIndex" THEN idx_file.wordlist ELSE idx_file.idxfile.keys

Positions(idx_file) == 0..(idx_file.wordcount - 1)

IsStored(idx_file, str) ==
    \E i \in Positions(idx_file) : El(StoredKeys(idx_file), i) = str

\* C1: for every headword w stored in a sorted index, lookup(w) on either
\* index variant reports found and returns a non-empty index set containing
\* an i with get_key(i) byte-equal to w.
C1_StoredFound ==
    (ret.op = "lookup" /\ IsStored(oLib[1].idx_file, ret.str)) =>
        /\ ret.bFound
        /\ ret.idxs # {}
        /\ ret.idxs \subseteq Positions(oLib[1].idx_file)
        /\ \E i \in ret.idxs : idx_file_get_key(oLib[1].idx_file, i) = ret.str

\* A stored key is found where it is the first entry of a page, the last
\* entry of a page and the last entry of a paged index.
C1_Witness ==
    /\ ret.op = "lookup" /\ ret.bFound
    /\ oLib[1].idx_file.kind = "OffsetIndex"
    /\ oLib[1].idx_file.wordcount > ENTR_PER_PAGE
    /\ IsStored(oLib[1].idx_file, ret.str)
    /\ (oLib[1].idx_file.wordcount - 1) \in ret.idxs
    /\ \E i \in ret.idxs : i > 0 /\ i % ENTR_PER_PAGE = 0
    /\ \E i \in ret.idxs : i % ENTR_PER_PAGE = ENTR_PER_PAGE - 1

\* The insertion point of a query that is not stored: the position of the
\* first key above it, INVALID_INDEX if there is none.
InsertionPoint(idx_file, str) ==
    LET above == {i \in Positions(idx_file) :
                     stardict_strcmp(str, El(StoredKeys(idx_file), i)) < 0}
    IN  IF above = {} THEN INVALID_INDEX
        ELSE CHOOSE i \in above : \A j \in above : i <= j

\* C2: for a query that is not a stored headword, index lookup returns
\* found = false, leaves the index set empty and sets next_idx to the
\* insertion point: the index of the higher neighbour when the query lies
\* between two keys, 0 below the first key, INVALID_INDEX above the last.
C2_MissInsertionPoint ==
    (ret.op = "lookup" /\ ~IsStored(oLib[1].idx_file, ret.str)) =>
        /\ ~ret.bFound
        /\ ret.idxs = {}
        /\ ret.next_idx = Written(InsertionPoint(oLib[1].idx_file, ret.str))

\* A miss between the last key of one page and the first key of the next.
C2_Witness ==
    /\ ret.op = "lookup" /\ ~ret.bFound
    /\ oLib[1].idx_file.kind = "OffsetIndex"
    /\ ret.next_idx.written
    /\ ret.next_idx.val > 0
    /\ ret.next_idx.val % ENTR_PER_PAGE = 0
    /\ stardict_strcmp(ret.str, El(StoredKeys(oLib[1].idx_file), ret.next_idx.val - 1)) > 0
    /\ stardict_strcmp(ret.str, El(StoredKeys(oLib[1].idx_file), ret.next_idx.val)) < 0

\* C3: if a sorted index holds k consecutive entries equal to the query
\* under the comparator, lookup returns exactly those k indices.
C3_AllDuplicates ==
    (ret.op = "lookup" /\ IsStored(oLib[1].idx_file, ret.str)) =>
        ret.idxs = {i \in Positions(oLib[1].idx_file) :
                       stardict_strcmp(ret.str, El(StoredKeys(oLib[1].idx_file), i)) = 0}

\* A run of more than a page of equal keys, crossing a page boundary of the
\* OffsetIndex, with entries behind and ahead of the entry the binary search
\* finds.
C3_Witness ==
    /\ ret.op = "lookup" /\ ret.bFound
    /\ oLib[1].idx_file.kind = "OffsetIndex"
    /\ Cardinality(ret.idxs) = ENTR_PER_PAGE + 1
    /\ \E i, j \in ret.idxs : i \div ENTR_PER_PAGE # j \div ENTR_PER_PAGE
    /\ \E i \in Positions(oLib[1].idx_file) : i \notin ret.idxs

(***************************************************************************)
(* Specification SpecDict: one dictionary with a small sorted index and a  *)
(* .syn file (missing, empty, or a sorted list of entries that refer to    *)
(* positions of the index) is loaded and looked up through Dict::Lookup    *)
(***************************************************************************)
MaxWords == 2
MaxSyn == 3

\* Keys in ascending comparator order; two differ in case only.
DictKeys == <<Str(<<"A">>), Str(<<"a">>), Str(<<"a","b">>)>>

\* The non-decreasing sequences of length len over 1..n.
SortedSeqs(n, len) ==
    {f \in [1..len -> 1..n] : \A i \in 1..(len - 1) : f[i] <= f[i + 1]}

DictFiles ==
    UNION {{[i \in 1..len |-> DictKeys[f[i]]] : f \in SortedSeqs(Len(DictKeys), len)} :
             len \in 1..MaxWords}

\* The .syn files for an index of wc words.
SynFiles(wc) ==
    UNION {{[i \in 1..len |-> [key |-> DictKeys[f[i]], idx |-> t[i]]] :
               f \in SortedSeqs(Len(DictKeys), len), t \in [1..len -> 0..(wc - 1)]} :
             len \in 0..MaxSyn}

\* The keys, the empty string (below every key) and "c" (above).
DictQueries == {DictKeys[k] : k \in 1..Len(DictKeys)} \cup {<<>>, Str(<<"c">>)}

\* Libs::load_dict of a dictionary with index file and .syn file.
LoadDict ==
    /\ oLib = <<>>
    /\ \E file \in DictFiles, gz \in BOOLEAN, synexists \in BOOLEAN :
          \E synfile \in (IF synexists THEN SynFiles(Len(file)) ELSE {<<>>}) :
             oLib' = <<Dict_load(file, gz, synexists, synfile)>>
    /\ ret' = NoCall
    /\ UNCHANGED <<s1, s2, s3, cmp, fuzzy_, fz, disk>>

\* oLib[0]->Lookup(str, idxs, next_idx) with idxs empty and next_idx not yet
\* written.
DictLookup ==
    /\ oLib # <<>>
    /\ \E str \in DictQueries :
          \E r \in {Dict_Lookup(oLib[1], str, {}, NotWritten)} :
              /\ oLib' = <<r.self>>
              /\ ret' = [op |-> "Lookup", str |-> str, bFound |-> r.bFound,
                         idxs |-> r.idxs, next_idx |-> r.next_idx]
    /\ UNCHANGED <<s1, s2, s3, cmp, fuzzy_, fz, disk>>

NextDict == LoadDict \/ DictLookup

SpecDict == InitLibs /\ [][NextDict]_vars

\* The 0-based positions of the .syn entries whose key is str.
SynHits(dict, str) ==
    {i \in 0..(Len(dict.syn_file.synlist) - 1) : El(dict.syn_file.synlist, i).key = str}

\* The 0-based positions of the index entries whose key is str.
MainHits(dict, str) ==
    {i \in Positions(dict.idx_file) : El(StoredKeys(dict.idx_file), i) = str}

\* C6: Dict::Lookup(word) returns found iff the word is a synonym or a
\* headword, and its index set is the union of the main-index positions
\* stored in the synonym entries equal to the word and the positions of the
\* main-index entries equal to the word; a missing or empty .syn file
\* contributes nothing.
C6_DictLookupUnion ==
    ret.op = "Lookup" =>
        LET syn  == SynHits(oLib[1], ret.str)
            main == MainHits(oLib[1], ret.str)
        IN  /\ ret.bFound <=> (syn # {} \/ main # {})
            /\ ret.idxs = {El(oLib[1].syn_file.synlist, i).idx : i \in syn} \cup main

\* A word found as a synonym only, through an entry whose own position in
\* the .syn list differs from the main-index position it refers to and is
\* not returned.
C6_Witness ==
    /\ ret.op = "Lookup" /\ ret.bFound
    /\ MainHits(oLib[1], ret.str) = {}
    /\ \E i \in SynHits(oLib[1], ret.str) :
          /\ i \notin ret.idxs
          /\ El(oLib[1].syn_file.synlist, i).idx \in ret.idxs

(***************************************************************************)
(* Specification SpecWords: a library of one dictionary of English words   *)
(* is asked for words by Dict::Lookup, LookupSimilarWord and               *)
(* SimpleLookupWord                                                        *)
(***************************************************************************)
W_apple   == Str(<<"a","p","p","l","e">>)
W_Apple   == Str(<<"A","p","p","l","e">>)
W_APPLE   == Str(<<"A","P","P","L","E">>)
W_banana  == Str(<<"b","a","n","a","n","a">>)
W_BaNaNa  == Str(<<"B","a","N","a","N","a">>)
W_cherry  == Str(<<"c","h","e","r","r","y">>)
W_walk    == Str(<<"w","a","l","k">>)
W_walked  == Str(<<"w","a","l","k","e","d">>)
W_walking == Str(<<"w","a","l","k","i","n","g">>)
W_WALKS   == Str(<<"W","A","L","K","S">>)

\* The index files, each sorted by stardict_strcmp.
File_abc   == <<W_apple, W_banana, W_cherry>>
File_apple == <<W_APPLE, W_Apple, W_apple>>
File_walk  == <<W_walk>>

WordFiles == {File_abc, File_apple, File_walk}

WordQueries ==
    {W_apple, W_Apple, W_APPLE, W_banana, W_BaNaNa, W_cherry,
     W_walk, W_walked, W_walking, W_WALKS}

\* Libs::Libs and Libs::load_dict of one dictionary without a .syn file.
LoadWords ==
    /\ oLib = <<>>
    /\ \E file \in WordFiles, gz \in BOOLEAN :
          oLib' = <<Dict_load(file, gz, FALSE, <<>>)>>
    /\ fuzzy_' \in BOOLEAN
    /\ ret' = NoCall
    /\ UNCHANGED <<s1, s2, s3, cmp, fz, disk>>

\* oLib[0]->Lookup(sWord, idxs, next_idx).
WordLookup ==
    /\ oLib # <<>>
    /\ \E sWord \in WordQueries :
          \E r \in {Dict_Lookup(oLib[1], sWord, {}, NotWritten)} :
              /\ oLib' = <<r.self>>
              /\ ret' = [op |-> "Lookup", str |-> sWord, bFound |-> r.bFound,
                         idxs |-> r.idxs, next_idx |-> r.next_idx]
    /\ UNCHANGED <<s1, s2, s3, cmp, fuzzy_, fz, disk>>

\* LookupSimilarWord(sWord, iWordIndices, 0) with iWordIndices empty.
WordSimilar ==
    /\ oLib # <<>>
    /\ \E sWord \in WordQueries :
          \E r \in {LookupSimilarWord(oLib[1], sWord, {})} :
              /\ oLib' = <<r.self>>
              /\ ret' = [op |-> "LookupSimilarWord", str |-> sWord,
                         bFound |-> r.bFound, idxs |-> r.idxs]
    /\ UNCHANGED <<s1, s2, s3, cmp, fuzzy_, fz, disk>>

\* SimpleLookupWord(sWord, iWordIndices, 0) with iWordIndices empty.
WordSimple ==
    /\ oLib # <<>>
    /\ \E sWord \in WordQueries :
          \E r \in {SimpleLookupWord(oLib[1], fuzzy_, sWord, {})} :
              /\ oLib' = <<r.self>>
              /\ ret' = [op |-> "SimpleLookupWord", str |-> sWord,
                         bFound |-> r.bFound, idxs |-> r.idxs]
    /\ UNCHANGED <<s1, s2, s3, cmp, fuzzy_, fz, disk>>

NextWords == LoadWords \/ WordLookup \/ WordSimilar \/ WordSimple

SpecWords == InitLibs /\ [][NextWords]_vars

\* The index file the loaded dictionary was read from.
LoadedFile == StoredKeys(oLib[1].idx_file)

\* C5, as the specification states it: exact lookup matches headwords
\* ignoring ASCII letter case: with index {apple, banana, cherry} the query
\* BaNaNa returns {1}, and with index {APPLE, Apple, apple} the query apple
\* returns all three indices.
C5_IgnoresCase ==
    ret.op = "Lookup" =>
        /\ (LoadedFile = File_abc /\ ret.str = W_BaNaNa) => ret.idxs = {1}
        /\ (LoadedFile = File_apple /\ ret.str = W_apple) => ret.idxs = {0, 1, 2}

\* C5, amended: exact lookup matches a headword only if it is byte-identical
\* to the query: with index {apple, banana, cherry} the query banana returns
\* {1} while BaNaNa is not found, with no index returned and next_idx = 1;
\* with index {APPLE, Apple, apple} the query apple returns {2} alone.
C5_ExactIsCaseSensitive ==
    ret.op = "Lookup" =>
        /\ ret.idxs = MainHits(oLib[1], ret.str)
        /\ ret.bFound <=> ret.idxs # {}
        /\ (LoadedFile = File_abc /\ ret.str = W_banana) => ret.idxs = {1}
        /\ (LoadedFile = File_abc /\ ret.str = W_BaNaNa) =>
               ~ret.bFound /\ ret.idxs = {} /\ ret.next_idx = Written(1)
        /\ (LoadedFile = File_apple /\ ret.str = W_apple) => ret.idxs = {2}

\* BaNaNa has been looked up in {apple, banana, cherry} and was not found.
C5_Witness ==
    /\ ret.op = "Lookup"
    /\ LoadedFile = File_abc
    /\ ret.str = W_BaNaNa
    /\ ~ret.bFound

\* C7: for a dictionary whose only headword is walk, LookupSimilarWord
\* returns found with index set {0} for each of the queries walked, walking
\* and WALKS.
C7_WalkMorphology ==
    (/\ ret.op = "LookupSimilarWord"
     /\ LoadedFile = File_walk
     /\ ret.str \in {W_walked, W_walking, W_WALKS}) =>
        ret.bFound /\ ret.idxs = {0}

\* WALKS has been resolved to walk, which takes the lower-casing of the stem
\* the "s" rule cuts.
C7_Witness ==
    /\ ret.op = "LookupSimilarWord"
    /\ LoadedFile = File_walk
    /\ ret.str = W_WALKS
    /\ ret.bFound /\ ret.idxs = {0}

(***************************************************************************)
(* Specification SpecFuzzy: a library of one or two dictionaries is        *)
(* scanned by LookupWithFuzzy, one headword at a step                      *)
(***************************************************************************)
MaxFuzzyWords == 2
MaxSlots == 2

\* Headwords in ascending comparator order.
FuzzyUniverse == <<Str(<<"a">>), Str(<<"A","B">>), Str(<<"a","b","b">>),
                   Str(<<"a","b","b","b">>), Str(<<"b","a">>),
                   Str(<<"b","b","a","a">>)>>

\* The strictly increasing sequences of length len over 1..n.
IncreasingSeqs(n, len) ==
    {f \in [1..len -> 1..n] : \A i \in 1..(len - 1) : f[i] < f[i + 1]}

FuzzyFiles ==
    UNION {{[i \in 1..len |-> FuzzyUniverse[f[i]]] :
               f \in IncreasingSeqs(Len(FuzzyUniverse), len)} : len \in 1..MaxFuzzyWords}

FuzzyQueries == {<<>>, Str(<<"b">>), Str(<<"a","b">>), Str(<<"B","a">>),
                 Str(<<"a","b","b">>)}

\* Libs::load_dict of one or two dictionaries.
LoadFuzzy ==
    /\ oLib = <<>>
    /\ \E gz \in BOOLEAN, file1 \in FuzzyFiles :
          \/ oLib' = <<Dict_load(file1, gz, FALSE, <<>>)>>
          \/ \E file2 \in FuzzyFiles :
                oLib' = <<Dict_load(file1, gz, FALSE, <<>>),
                          Dict_load(file2, gz, FALSE, <<>>)>>
    /\ ret' = NoCall
    /\ UNCHANGED <<s1, s2, s3, cmp, fuzzy_, fz, disk>>

\* LookupWithFuzzy(sWord, reslist, reslist_size) up to its loop over the
\* dictionaries; an empty sWord returns false at once.
FuzzyBegin ==
    /\ oLib # <<>>
    /\ ~fz.active
    /\ \E sWord \in FuzzyQueries, reslist_size \in 1..MaxSlots :
          IF sWord = <<>>
          THEN /\ ret' = [op |-> "LookupWithFuzzy", str |-> sWord,
                          reslist_size |-> reslist_size, Found |-> FALSE,
                          reslist |-> <<>>, oFuzzystruct |-> <<>>]
               /\ fz' = fz
          ELSE /\ fz' = [active |-> TRUE, sWord |-> sWord,
                         oFuzzystruct |->
                             [i \in 1..reslist_size |->
                                 [pMatchWord |-> nullptr,
                                  iMatchWordDistance |-> iMaxFuzzyDistance]],
                         iMaxDistance |-> iMaxFuzzyDistance,
                         Found |-> FALSE,
                         ucs4_str2 |-> unicode_strdown(g_utf8_to_ucs4_fast(sWord)),
                         iLib |-> 0, index |-> 0]
               /\ ret' = NoCall
    /\ UNCHANGED <<s1, s2, s3, cmp, oLib, fuzzy_, disk>>

\* One pass of the loop over the headwords: headword index of dictionary
\* iLib is read and weighed; the loops move on to the next headword, or to
\* the next dictionary.
FuzzyWord ==
    /\ fz.active
    /\ fz.iLib < Len(oLib)
    /\ LET dict   == oLib[fz.iLib + 1]
           sCheck == poGetWord(dict, fz.index)
           f      == FuzzyLoopBody(fz, sCheck)
           last   == fz.index + 1 >= narticles(dict)
       IN  /\ fz' = [f EXCEPT !.iLib = IF last THEN fz.iLib + 1 ELSE fz.iLib,
                              !.index = IF last THEN 0 ELSE fz.index + 1]
           /\ oLib' = [oLib EXCEPT ![fz.iLib + 1].idx_file =
                          IF dict.idx_file.kind = "OffsetIndex"
                          THEN OffsetIndex_get_key(dict.idx_file, fz.index).self
                          ELSE dict.idx_file]
    /\ UNCHANGED <<s1, s2, s3, cmp, fuzzy_, ret, disk>>

\* After the last dictionary: the slots are sorted if anything was found
\* and copied to reslist.
FuzzyEnd ==
    /\ fz.active
    /\ fz.iLib = Len(oLib)
    /\ LET sorted == IF fz.Found THEN FuzzySort(fz.oFuzzystruct) ELSE fz.oFuzzystruct
       IN  ret' = [op |-> "LookupWithFuzzy", str |-> fz.sWord,
                   reslist_size |-> Len(fz.oFuzzystruct), Found |-> fz.Found,
                   reslist |-> [i \in 1..Len(sorted) |-> sorted[i].pMatchWord],
                   oFuzzystruct |-> sorted]
    /\ fz' = NoFuzzy
    /\ UNCHANGED <<s1, s2, s3, cmp, oLib, fuzzy_, disk>>

NextFuzzy == LoadFuzzy \/ FuzzyBegin \/ FuzzyWord \/ FuzzyEnd

SpecFuzzy == InitLibs /\ [][NextFuzzy]_vars

\* The Levenshtein distance of two strings of code points.
EditDist(s, t) == CalEditDistance(s, t, Len(s) + Len(t) + 1)

\* The case-folded code points of a UTF-8 string.
Folded(str) == unicode_strdown(g_utf8_to_ucs4_fast(str))

\* The headwords a finished LookupWithFuzzy returned, in reslist order.
Returned == {i \in 1..Len(ret.reslist) : ret.reslist[i] # nullptr}

\* The headword in slot i of the result.
ReturnedWord(i) == ret.reslist[i][1]

\* The case-folded headword cut to the length of the case-folded query.
CutToQuery(word, query) ==
    LET h == Folded(word)
    IN  IF Len(h) > Len(Folded(query)) THEN SubSeq(h, 1, Len(Folded(query))) ELSE h

\* C8, as the specification states it: every headword returned by
\* FuzzyLookup for a query of length L >= 2 has edit distance at most 2
\* between the case-folded headword and the case-folded query, and none has
\* edit distance >= L.
C8_WholeWordDistance ==
    (ret.op = "LookupWithFuzzy" /\ Len(Folded(ret.str)) >= 2) =>
        \A i \in Returned :
            LET d == EditDist(Folded(ReturnedWord(i)), Folded(ret.str))
            IN  d <= 2 /\ d < Len(Folded(ret.str))

\* C8, amended: every headword returned by FuzzyLookup for a query of
\* length L >= 2 has edit distance at most 2, and less than L, between the
\* case-folded query and the case-folded headword cut to its first L code
\* points, and the headword's length differs from L by at most 2.
C8_CutWordDistance ==
    (ret.op = "LookupWithFuzzy" /\ Len(Folded(ret.str)) >= 2) =>
        \A i \in Returned :
            LET L == Len(Folded(ret.str))
                d == EditDist(CutToQuery(ReturnedWord(i), ret.str), Folded(ret.str))
                n == Len(Folded(ReturnedWord(i)))
            IN  /\ d <= 2 /\ d < L
                /\ n - L <= 2 /\ L - n <= 2

\* A returned headword longer than the query, within distance of the query
\* once cut, and at distance 3 from it as a whole.
C8_Witness ==
    /\ ret.op = "LookupWithFuzzy"
    /\ Len(Folded(ret.str)) >= 2
    /\ \E i \in Returned :
          /\ Len(Folded(ReturnedWord(i))) > Len(Folded(ret.str))
          /\ EditDist(CutToQuery(ReturnedWord(i), ret.str), Folded(ret.str)) <= 1
          /\ EditDist(Folded(ReturnedWord(i)), Folded(ret.str)) >= 3

\* C9: FuzzyLookup(word, n) returns at most n headwords, no headword twice
\* (also when it occurs in several dictionaries), ordered by ascending
\* distance (the distance the lookup measured: to the headword cut to the
\* query's length) and among equal distances ascending by the comparator;
\* all null slots come after all headwords.
C9_FuzzyResultOrder ==
    ret.op = "LookupWithFuzzy" =>
        /\ Cardinality(Returned) <= ret.reslist_size
        /\ Len(ret.reslist) <= ret.reslist_size
        /\ \A i, j \in Returned : i # j => ReturnedWord(i) # ReturnedWord(j)
        /\ \A i \in Returned : \A j \in 1..Len(ret.reslist) : j \notin Returned => i < j
        /\ \A i \in Returned :
              ret.oFuzzystruct[i].iMatchWordDistance =
                  EditDist(CutToQuery(ReturnedWord(i), ret.str), Folded(ret.str))
        /\ \A i, j \in Returned :
              i < j =>
                 \/ ret.oFuzzystruct[i].iMatchWordDistance
                       < ret.oFuzzystruct[j].iMatchWordDistance
                 \/ /\ ret.oFuzzystruct[i].iMatchWordDistance
                          = ret.oFuzzystruct[j].iMatchWordDistance
                    /\ stardict_strcmp(ReturnedWord(i), ReturnedWord(j)) < 0

\* Two dictionaries that share a headword, which is returned once, next to
\* another headword at the same distance.
C9_Witness ==
    /\ ret.op = "LookupWithFuzzy"
    /\ Len(oLib) = 2
    /\ Cardinality(Returned) = 2
    /\ ret.oFuzzystruct[1].iMatchWordDistance = ret.oFuzzystruct[2].iMatchWordDistance
    /\ \E i \in Returned :
          /\ \E k \in Positions(oLib[1].idx_file) :
                El(StoredKeys(oLib[1].idx_file), k) = ReturnedWord(i)
          /\ \E k \in Positions(oLib[2].idx_file) :
                El(StoredKeys(oLib[2].idx_file), k) = ReturnedWord(i)

(***************************************************************************)
(* Specification SpecRule: a library of one or two dictionaries is         *)
(* searched by LookupWithRule for the headwords that match a glob          *)
(***************************************************************************)
MaxRuleWords == 3

\* Headwords in ascending comparator order.
RuleUniverse == <<Str(<<"r","e","s","t">>), Str(<<"T","e","s","t">>),
                  Str(<<"t","e","s","t">>), Str(<<"t","e","s","t","i","n","g">>),
                  Str(<<"t","e","s","t","s">>)>>

RuleFiles ==
    UNION {{[i \in 1..len |-> RuleUniverse[f[i]]] :
               f \in IncreasingSeqs(Len(RuleUniverse), len)} : len \in 1..MaxRuleWords}

RulePatterns ==
    {Str(<<"*">>), Str(<<"*","e","s","t">>), Str(<<"t","?","s","t">>),
     Str(<<"t","e","s","t","*">>), Str(<<"?","e","s","t","?","*">>),
     Str(<<"x","*">>), Str(<<"t","e","s","t">>)}

\* Libs::load_dict of one or two dictionaries.
LoadRule ==
    /\ oLib = <<>>
    /\ \E gz \in BOOLEAN, file1 \in RuleFiles :
          \/ oLib' = <<Dict_load(file1, gz, FALSE, <<>>)>>
          \/ \E file2 \in RuleFiles :
                oLib' = <<Dict_load(file1, gz, FALSE, <<>>),
                          Dict_load(file2, gz, FALSE, <<>>)>>
    /\ ret' = NoCall
    /\ UNCHANGED <<s1, s2, s3, cmp, fuzzy_, fz, disk>>

\* LookupWithRule(word, ppMatchWord).
PatternLookup ==
    /\ oLib # <<>>
    /\ \E word \in RulePatterns :
          \E r \in {Libs_LookupWithRule(oLib, word)} :
              /\ ret' = [op |-> "LookupWithRule", str |-> word,
                         iMatchCount |-> r.iMatchCount,
                         ppMatchWord |-> r.ppMatchWord, perLib |-> r.perLib]
              /\ oLib' = AfterRule(oLib, r.perLib)
    /\ UNCHANGED <<s1, s2, s3, cmp, fuzzy_, fz, disk>>

NextRule == LoadRule \/ PatternLookup

SpecRule == InitLibs /\ [][NextRule]_vars

\* The positions of the headwords of dictionary l that match the glob.
Matching(l, word) ==
    {i \in Positions(oLib[l].idx_file) :
        g_pattern_spec_match_string(g_pattern_spec_new(word),
                                    El(StoredKeys(oLib[l].idx_file), i))}

\* The first MAX_MATCH_ITEM_PER_LIB of them, in index order.
Contribution(l, word) ==
    {i \in Matching(l, word) :
        Cardinality({k \in Matching(l, word) : k < i}) < MAX_MATCH_ITEM_PER_LIB}

\* C10: PatternLookup returns the union over all dictionaries of the
\* headwords matching the glob, no two of them byte-equal, sorted ascending
\* by the comparator, each dictionary contributing at most
\* MAX_MATCH_ITEM_PER_LIB matches, its first in index order, and the -1
\* terminator is always written inside the buffer of
\* MAX_MATCH_ITEM_PER_LIB + 1 cells.
C10_PatternUnion ==
    ret.op = "LookupWithRule" =>
        /\ {ret.ppMatchWord[k] : k \in 1..Len(ret.ppMatchWord)} =
               UNION {{El(StoredKeys(oLib[l].idx_file), i) : i \in Contribution(l, ret.str)} :
                        l \in 1..Len(oLib)}
        /\ ret.iMatchCount = Len(ret.ppMatchWord)
        /\ \A j, k \in 1..Len(ret.ppMatchWord) :
              j < k => stardict_strcmp(ret.ppMatchWord[j], ret.ppMatchWord[k]) < 0
        /\ \A l \in 1..Len(oLib) :
              /\ ret.perLib[l].iIndexCount <= MAX_MATCH_ITEM_PER_LIB
              /\ Len(ret.perLib[l].aIndex) <= MAX_MATCH_ITEM_PER_LIB + 1
              /\ ret.perLib[l].aIndex[Len(ret.perLib[l].aIndex)] = -1
              /\ {ret.perLib[l].aIndex[k] : k \in 1..ret.perLib[l].iIndexCount}
                    = Contribution(l, ret.str)

\* Two dictionaries: one has more matches than it may contribute and
\* fills its buffer, and a headword matched in both is returned once.
C10_Witness ==
    /\ ret.op = "LookupWithRule"
    /\ Len(oLib) = 2
    /\ \E l \in 1..2 :
          /\ Cardinality(Matching(l, ret.str)) > MAX_MATCH_ITEM_PER_LIB
          /\ Len(ret.perLib[l].aIndex) = MAX_MATCH_ITEM_PER_LIB + 1
    /\ \E i \in Contribution(1, ret.str), j \in Contribution(2, ret.str) :
          El(StoredKeys(oLib[1].idx_file), i) = El(StoredKeys(oLib[2].idx_file), j)
    /\ ret.iMatchCount >= 2

\* The index {test, testing, rest} in its file order, and the glob *est.
File_est == <<RuleUniverse[1], RuleUniverse[3], RuleUniverse[4]>>
Glob_est == Str(<<"*","e","s","t">>)

\* The one dictionary loaded holds File_est and was asked for *est.
AskedEst ==
    /\ ret.op = "LookupWithRule"
    /\ Len(oLib) = 1
    /\ StoredKeys(oLib[1].idx_file) = File_est
    /\ ret.str = Glob_est

SearchedTypes == {109, 116, 121, 108, 103, 120, 107}

\* The u32 stored at offset p, read in the byte order of the host.
get_uint32(buf, p, hostBE) ==
    IF hostBE
    THEN ((At(buf, p) * 256 + At(buf, p + 1)) * 256 + At(buf, p + 2)) * 256
            + At(buf, p + 3)
    ELSE ((At(buf, p + 3) * 256 + At(buf, p + 2)) * 256 + At(buf, p + 1)) * 256
            + At(buf, p)

\* Whether a NUL is stored in buf at offset p or later.
HasNul(buf, p) == \E k \in (p + 1)..Len(buf) : buf[k] = 0

\* The bytes from offset p up to the first NUL (or the end of buf).
CStrAt(buf, p) ==
    LET n == CHOOSE n \in 0..(Len(buf) - p) :
                 /\ \A k \in 1..n : buf[p + k] # 0
                 /\ (p + n = Len(buf) \/ buf[p + n + 1] = 0)
    IN  SubSeq(buf, p + 1, p + n)

\* strstr(hay, needle) # NULL, for a needle that is not empty.
strstr(hay, needle) ==
    \E k \in 0..(Len(hay) - Len(needle)) :
        SubSeq(hay, k + 1, k + Len(needle)) = needle

\* The loop over SearchWords: the needles found so far together with those
\* that occur in hay.
WordFind_after(WordFind, SearchWords, hay) ==
    WordFind \cup {j \in 1..Len(SearchWords) : strstr(hay, SearchWords[j])}

\* The last field of a record with a sametypesequence, at offset p.
SearchData_last(SearchWords, origin_data, type, p, WordFind) ==
    IF type \in SearchedTypes
    THEN IF p > Len(origin_data) THEN "wild"
         ELSE IF WordFind_after(WordFind, SearchWords, CStrAt(origin_data, p))
                     = 1..Len(SearchWords)
              THEN "true" ELSE "false"
    ELSE "false"

\* The fields i .. of a record with a sametypesequence, the pointer at p.
RECURSIVE SearchData_seq(_, _, _, _, _, _, _)
SearchData_seq(SearchWords, origin_data, sametypesequence, hostBE, i, p, WordFind) ==
    IF i = Len(sametypesequence)
    THEN SearchData_last(SearchWords, origin_data, sametypesequence[i], p, WordFind)
    ELSE IF sametypesequence[i] \in SearchedTypes
    THEN IF ~HasNul(origin_data, p) THEN "wild"
         ELSE LET K(found) ==
                      IF found = 1..Len(SearchWords) THEN "true"
                      ELSE SearchData_seq(SearchWords, origin_data,
                               sametypesequence, hostBE, i + 1,
                               p + Len(CStrAt(origin_data, p)) + 1, found)
              IN  K(WordFind_after(WordFind, SearchWords, CStrAt(origin_data, p)))
    ELSE IF g_ascii_isupper(sametypesequence[i])
    THEN IF p + 4 > Len(origin_data) THEN "wild"
         ELSE SearchData_seq(SearchWords, origin_data, sametypesequence,
                  hostBE, i + 1,
                  p + get_uint32(origin_data, p, hostBE) + 4, WordFind)
    ELSE IF ~HasNul(origin_data, p) THEN "wild"
         ELSE SearchData_seq(SearchWords, origin_data, sametypesequence,
                  hostBE, i + 1, p + Len(CStrAt(origin_data, p)) + 1, WordFind)

\* A record without sametypesequence: the loop over the tagged fields, the
\* pointer at p.  The tag is read at p and the field is searched and sized
\* from p, the tag included.
RECURSIVE SearchData_tagged(_, _, _, _, _)
SearchData_tagged(SearchWords, origin_data, hostBE, p, WordFind) ==
    IF ~(p < Len(origin_data)) THEN "false"
    ELSE IF At(origin_data, p) \in SearchedTypes
    THEN IF ~HasNul(origin_data, p) THEN "wild"
         ELSE LET K(found) ==
                      IF found = 1..Len(SearchWords) THEN "true"
                      ELSE SearchData_tagged(SearchWords, origin_data, hostBE,
                               p + Len(CStrAt(origin_data, p)) + 1, found)
              IN  K(WordFind_after(WordFind, SearchWords, CStrAt(origin_data, p)))
    ELSE IF g_ascii_isupper(At(origin_data, p))
    THEN IF p + 4 > Len(origin_data) THEN "wild"
         ELSE SearchData_tagged(SearchWords, origin_data, hostBE,
                  p + get_uint32(origin_data, p, hostBE) + 4, WordFind)
    ELSE IF ~HasNul(origin_data, p) THEN "wild"
         ELSE SearchData_tagged(SearchWords, origin_data, hostBE,
                  p + Len(CStrAt(origin_data, p)) + 1, WordFind)

\* DictBase::SearchData on the record origin_data: "true", "false", or
\* "wild" when the scan reads outside the record.
SearchData(sametypesequence, SearchWords, origin_data, hostBE) ==
    IF sametypesequence # <<>>
    THEN SearchData_seq(SearchWords, origin_data, sametypesequence, hostBE,
                        1, 0, {})
    ELSE SearchData_tagged(SearchWords, origin_data, hostBE, 0, {})

(***************************************************************************)
(* Specification SpecData: SearchData is called on well-formed records,    *)
(* stored with a sametypesequence or self-describing                       *)
(***************************************************************************)
MaxFields == 2
MaxNeedles == 2

\* The u32 n as the file stores it, big-endian.
BE32(n) == <<(n \div 16777216) % 256, (n \div 65536) % 256,
             (n \div 256) % 256, n % 256>>

\* A field is its type character and its content: the text of a string
\* field without its NUL, the bytes of a binary field without their length.
FieldTypes == {Code("m"), Code("W")}
FieldContents == {<<>>, Str(<<"h">>), Str(<<"m">>)}
Fields == [type : FieldTypes, data : FieldContents]

SeqsUpTo(S, n) == UNION {[1..k -> S] : k \in 1..n}

FieldLists == SeqsUpTo(Fields, MaxFields)

Needles == {Str(<<"h">>), Str(<<"m">>), Str(<<"m","h">>)}
NeedleLists == SeqsUpTo(Needles, MaxNeedles)

\* A field as the file stores it when it is not the last of its record:
\* text and NUL, or big-endian length and bytes.
StoredField(f) ==
    IF g_ascii_isupper(f.type) THEN BE32(Len(f.data)) \o f.data
    ELSE f.data \o <<0>>

\* The record of the fields fs in a dictionary with a sametypesequence: no
\* type characters, the last field without NUL or length.
RECURSIVE PlainRecord(_)
PlainRecord(fs) ==
    IF Len(fs) = 1 THEN fs[1].data
    ELSE StoredField(fs[1]) \o PlainRecord(Tail(fs))

\* The record of the fields fs in a dictionary without sametypesequence:
\* every field behind its type character.
RECURSIVE TaggedRecord(_)
TaggedRecord(fs) ==
    IF fs = <<>> THEN <<>>
    ELSE <<fs[1].type>> \o StoredField(fs[1]) \o TaggedRecord(Tail(fs))

TypesOf(fs) == [i \in 1..Len(fs) |-> fs[i].type]

\* A well-formed record, a list of needles and the byte order of the host:
\* the arguments of a call of SearchData that has not been made yet.
InitData ==
    /\ \E fs \in FieldLists, tagged \in BOOLEAN, SearchWords \in NeedleLists,
          hostBE \in BOOLEAN :
          ret = [op |-> "record", fields |-> fs, tagged |-> tagged,
                 SearchWords |-> SearchWords, hostBE |-> hostBE]
    /\ oLib = <<>>
    /\ fuzzy_ = FALSE
    /\ fz = NoFuzzy
    /\ s1 = <<>> /\ s2 = <<>> /\ s3 = <<>> /\ cmp = NoCmp
    /\ disk = NoDisk

\* SearchData on the record of the fields ret.fields; a wild read may
\* return either answer.
RecordSearch ==
    /\ ret.op = "record"
    /\ \E r \in {SearchData(IF ret.tagged THEN <<>> ELSE TypesOf(ret.fields),
                            ret.SearchWords,
                            IF ret.tagged THEN TaggedRecord(ret.fields)
                                          ELSE PlainRecord(ret.fields),
                            ret.hostBE)} :
          \E found \in BOOLEAN :
              /\ r = "true" => found
              /\ r = "false" => ~found
              /\ ret' = [op |-> "SearchData", fields |-> ret.fields,
                         tagged |-> ret.tagged,
                         SearchWords |-> ret.SearchWords,
                         hostBE |-> ret.hostBE,
                         wild |-> (r = "wild"), found |-> found]
    /\ UNCHANGED <<s1, s2, s3, cmp, oLib, fuzzy_, fz, disk>>

NextData == RecordSearch

SpecData == InitData /\ [][NextData]_vars

\* Every needle is a substring of the text of some string-typed field.
EveryNeedleInText(fs, SearchWords) ==
    \A j \in 1..Len(SearchWords) :
        \E i \in 1..Len(fs) :
            /\ fs[i].type \in SearchedTypes
            /\ strstr(fs[i].data, SearchWords[j])

\* C12: SearchData(record, needles) returns true exactly when every needle
\* occurs as a byte-wise substring of the text of some string-typed field of
\* the record, different needles possibly in different fields; binary fields
\* and type-tag bytes never contribute a match; this holds for records with
\* a sametypesequence and for self-describing records with inline tags.
C12_TrueIffEveryNeedleInText ==
    ret.op = "SearchData" =>
        (ret.found <=> EveryNeedleInText(ret.fields, ret.SearchWords))

\* The self-describing record m h NUL was searched for the needle mh, which
\* its only text, h, does not contain, and SearchData returned true.
C12_Witness ==
    /\ ret.op = "SearchData"
    /\ ret.tagged
    /\ ret.fields = <<[type |-> Code("m"), data |-> Str(<<"h">>)]>>
    /\ ret.SearchWords = <<Str(<<"m","h">>)>>
    /\ ~ret.wild
    /\ ret.found

(***************************************************************************)
(* Libs::LookupData                                                        *)
(***************************************************************************)
\* The needle under construction, SearchWord, is pushed if it is not empty.
PushWord(SearchWords, SearchWord) ==
    IF SearchWord # <<>> THEN Append(SearchWords, SearchWord) ELSE SearchWords

\* The byte a backslash followed by c stands for.
Escaped(c) ==
    IF c = Code("t") THEN 9 ELSE IF c = Code("n") THEN 10 ELSE c

\* The loop that splits sWord into SearchWords, the pointer at p.  A
\* backslash that ends sWord makes the loop step over the terminating NUL
\* and read on ("wild"): the needle under construction then holds a NUL
\* behind its bytes and is pushed, whatever bytes follow.
RECURSIVE SplitQuery(_, _, _, _)
SplitQuery(sWord, p, SearchWord, SearchWords) ==
    IF At(sWord, p) = 0
    THEN [wild |-> FALSE, SearchWords |-> PushWord(SearchWords, SearchWord)]
    ELSE IF At(sWord, p) = 92
    THEN IF At(sWord, p + 1) = 0
         THEN [wild |-> TRUE, SearchWords |-> Append(SearchWords, SearchWord)]
         ELSE SplitQuery(sWord, p + 2,
                         Append(SearchWord, Escaped(At(sWord, p + 1))),
                         SearchWords)
    ELSE IF At(sWord, p) = 32
    THEN SplitQuery(sWord, p + 1, <<>>, PushWord(SearchWords, SearchWord))
    ELSE SplitQuery(sWord, p + 1, Append(SearchWord, At(sWord, p)), SearchWords)

\* Dict::containSearchData, as the specification gives it: the records have
\* a string-typed field by their schema; a dictionary without
\* sametypesequence is searched (the branch of SearchData for it is only
\* reached from LookupData).
containSearchData(dict) ==
    \/ dict.sametypesequence = <<>>
    \/ \E i \in 1..Len(dict.sametypesequence) :
           dict.sametypesequence[i] \in SearchedTypes

\* The loop over the articles j .. of one dictionary: the headwords pushed
\* on its result list.  answers[j] is what SearchData returns on record j
\* if it reads outside the record.
RECURSIVE LookupData_scan(_, _, _, _, _)
LookupData_scan(dict, SearchWords, hostBE, answers, j) ==
    IF j >= narticles(dict) THEN <<>>
    ELSE LET Rest == LookupData_scan(dict, SearchWords, hostBE, answers, j + 1)
             K(r) == IF r = "true" \/ (r = "wild" /\ answers[j])
                     THEN <<poGetWord(dict, j)>> \o Rest
                     ELSE Rest
         IN  K(SearchData(dict.sametypesequence, SearchWords,
                          dict.dictfile[j + 1], hostBE))

\* Whether SearchData reads outside some record of the dictionary.
LookupData_wild(dict, SearchWords, hostBE) ==
    \E j \in 0..(narticles(dict) - 1) :
        SearchData(dict.sametypesequence, SearchWords, dict.dictfile[j + 1],
                   hostBE) = "wild"

\* Libs::LookupData(sWord, reslist) for needles that have been split.
LookupData_lists(libs, SearchWords, hostBE, answers) ==
    [i \in 1..Len(libs) |->
        IF containSearchData(libs[i])
        THEN LookupData_scan(libs[i], SearchWords, hostBE, answers[i], 0)
        ELSE <<>>]

\* Libs::LookupData(sWord, reslist): the needles, the result lists and the
\* value returned.  garbage stands for the needles read behind the end of a
\* query that ends in a backslash.
LookupData(libs, sWord, hostBE, answers, garbage) ==
    LET Lists(reslist, SearchWords) ==
            [SearchWords |-> SearchWords, reslist |-> reslist,
             scanned |-> TRUE, overrun |-> FALSE,
             wild |-> \E i \in 1..Len(libs) :
                          /\ containSearchData(libs[i])
                          /\ LookupData_wild(libs[i], SearchWords, hostBE),
             ret |-> \E i \in 1..Len(libs) : reslist[i] # <<>>]
        ReadOn(s) ==
            [overrun |-> s.wild,
             SearchWords |-> IF s.wild THEN s.SearchWords \o garbage
                             ELSE s.SearchWords]
        Split(s) ==
            IF s.SearchWords = <<>>
            THEN [SearchWords |-> <<>>, reslist |-> [i \in 1..Len(libs) |-> <<>>],
                  scanned |-> FALSE, wild |-> FALSE, overrun |-> FALSE,
                  ret |-> FALSE]
            ELSE [Lists(LookupData_lists(libs, s.SearchWords, hostBE, answers),
                        s.SearchWords)
                  EXCEPT !.overrun = s.overrun]
    IN  Split(ReadOn(SplitQuery(sWord, 0, <<>>, <<>>)))

(***************************************************************************)
(* Specification SpecLookupData: one or two dictionaries with records are  *)
(* loaded and LookupData is called on them                                 *)
(***************************************************************************)
MaxDataLibs == 2

Field(type, text) == [type |-> Code(type), data |-> Str(text)]

\* Dictionaries with the headwords A (and a): the field lists of their
\* records, stored with a sametypesequence or self-describing.
DataDicts ==
    { [tagged |-> FALSE, recs |-> << <<Field("m", <<"h">>)>>, <<Field("m", <<"m">>)>> >>],
      [tagged |-> FALSE, recs |-> << <<Field("m", <<"h">>), Field("m", <<"m">>)>> >>],
      [tagged |-> FALSE, recs |-> << <<Field("W", <<"h">>)>> >>],
      [tagged |-> FALSE, recs |-> << <<Field("W", <<"h">>), Field("m", <<"h">>)>> >>],
      [tagged |-> TRUE,  recs |-> << <<Field("m", <<"h">>)>>,
                                     <<Field("W", <<"h">>), Field("m", <<"h">>)>> >>] }

\* Dict::load of the dictionary d: its index, its sametypesequence and its
\* records by index position.
DataDict_load(d, gz) ==
    Dict_load(SubSeq(KeyUniverse, 1, Len(d.recs)), gz, FALSE, <<>>) @@
    [sametypesequence |-> IF d.tagged THEN <<>> ELSE TypesOf(d.recs[1]),
     dictfile |-> [j \in 1..Len(d.recs) |->
                      IF d.tagged THEN TaggedRecord(d.recs[j])
                      ELSE PlainRecord(d.recs[j])],
     fields |-> d.recs]

DataQueries ==
    { Str(<<"h">>), Str(<<"m","h">>), Str(<<"h"," ","m">>),
      Str(<<" ","h"," "," ","m"," ">>), Str(<<"h","\\"," ","m">>),
      Str(<<"\\","t">>), Str(<<"\\","n">>), Str(<<"\\","\\">>),
      Str(<<"\\","h">>), <<>>, Str(<<" "," ">>), Str(<<"h","\\">>) }

Garbage == {<<>>, <<Str(<<"m">>)>>}

LoadData ==
    /\ oLib = <<>>
    /\ \E libs \in SeqsUpTo(DataDicts, MaxDataLibs), gz \in BOOLEAN :
          oLib' = [i \in 1..Len(libs) |-> DataDict_load(libs[i], gz)]
    /\ ret' = NoCall
    /\ UNCHANGED <<s1, s2, s3, cmp, fuzzy_, fz, disk>>

\* Libs::LookupData(sWord, reslist).  The index of each dictionary has one
\* page, which Dict::load has read: get_key_and_data leaves oLib as it is.
DataLookup ==
    /\ oLib # <<>>
    /\ ret = NoCall
    /\ \E sWord \in DataQueries, hostBE \in BOOLEAN, garbage \in Garbage,
          answers \in [1..Len(oLib) -> [0..1 -> BOOLEAN]] :
          \E r \in {LookupData(oLib, sWord, hostBE, answers, garbage)} :
              ret' = [op |-> "LookupData", sWord |-> sWord, hostBE |-> hostBE,
                      SearchWords |-> r.SearchWords, reslist |-> r.reslist,
                      scanned |-> r.scanned, wild |-> r.wild,
                      overrun |-> r.overrun, ret |-> r.ret]
    /\ UNCHANGED <<s1, s2, s3, cmp, oLib, fuzzy_, fz, disk>>

NextLookupData == LoadData \/ DataLookup

SpecLookupData == InitLibs /\ [][NextLookupData]_vars

\* The characters of the query s from position i on, each with whether it
\* separates needles: a backslash makes the next character literal.
RECURSIVE QueryUnits(_, _)
QueryUnits(s, i) ==
    IF i > Len(s) THEN <<>>
    ELSE IF s[i] = 92 /\ i < Len(s)
    THEN <<[c |-> Escaped(s[i + 1]), sep |-> FALSE]>> \o QueryUnits(s, i + 2)
    ELSE <<[c |-> s[i], sep |-> s[i] = 32]>> \o QueryUnits(s, i + 1)

\* The maximal runs of characters between separators.
RECURSIVE RunsOf(_, _)
RunsOf(units, run) ==
    IF units = <<>> THEN IF run = <<>> THEN <<>> ELSE <<run>>
    ELSE IF units[1].sep
    THEN (IF run = <<>> THEN <<>> ELSE <<run>>) \o RunsOf(Tail(units), <<>>)
    ELSE RunsOf(Tail(units), Append(run, units[1].c))

NeedlesOf(s) == RunsOf(QueryUnits(s, 1), <<>>)

\* The headwords of dict from position j on whose record has every needle
\* in the text of its string-typed fields.
RECURSIVE HeadwordsWith(_, _, _)
HeadwordsWith(dict, needles, j) ==
    IF j > Len(dict.fields) THEN <<>>
    ELSE (IF EveryNeedleInText(dict.fields[j], needles)
          THEN <<KeyUniverse[j]>> ELSE <<>>)
         \o HeadwordsWith(dict, needles, j + 1)

\* The dictionary has a string-typed field by its schema, or no schema.
CanSearch(dict) ==
    \/ dict.sametypesequence = <<>>
    \/ \E i \in 1..Len(dict.sametypesequence) :
           dict.sametypesequence[i] \in SearchedTypes

\* C13: DataLookup splits the raw query into needles at unescaped spaces (a
\* backslash makes the next character literal, \t and \n giving tab and
\* newline); when no needle results it returns false without scanning any
\* dictionary; otherwise result list i holds exactly the headwords of
\* dictionary i, in index order, whose record contains every needle, a
\* dictionary without data-search capability contributing nothing, and the
\* value returned is true iff some list is not empty.  (Queries that end in
\* a lone backslash, which has no next character, are left aside.)
C13_DataLookup ==
    (ret.op = "LookupData" /\ ~ret.overrun) =>
        /\ ret.SearchWords = NeedlesOf(ret.sWord)
        /\ ret.SearchWords = <<>> =>
               /\ ~ret.ret /\ ~ret.scanned
               /\ \A i \in 1..Len(oLib) : ret.reslist[i] = <<>>
        /\ ret.SearchWords # <<>> =>
               /\ \A i \in 1..Len(oLib) :
                      ret.reslist[i] =
                          IF CanSearch(oLib[i])
                          THEN HeadwordsWith(oLib[i], ret.SearchWords, 1)
                          ELSE <<>>
               /\ ret.ret <=> \E i \in 1..Len(oLib) : ret.reslist[i] # <<>>

\* A dictionary without sametypesequence whose first record is m h NUL was
\* asked for mh: the headword of that record is in its result list, though
\* the record's text, h, does not contain mh.
C13_Witness ==
    /\ ret.op = "LookupData"
    /\ ret.SearchWords = <<Str(<<"m","h">>)>>
    /\ Len(oLib) = 1
    /\ oLib[1].sametypesequence = <<>>
    /\ oLib[1].fields[1] = <<Field("m", <<"h">>)>>
    /\ ~ret.wild
    /\ ret.reslist[1] = <<KeyUniverse[1]>>
    /\ ret.ret

(***************************************************************************)
(* analyze_query                                                           *)
(***************************************************************************)
\* Mutant of IsWildcard: only '*' makes a query a glob.
IsWildcard_StarOnly(c) == c = 42

\* *p == '*' || *p == '?'
IsWildcard(c) == c = 42 \/ c = 63

\* The loop of analyze_query, the pointer at p: res and regexp when it ends.
RECURSIVE analyze_query_loop(_, _, _, _)
analyze_query_loop(s, p, res, regexp) ==
    IF At(s, p) = 0 THEN [res |-> res, regexp |-> regexp]
    ELSE IF At(s, p) = 92
    THEN IF At(s, p + 1) = 0 THEN [res |-> res, regexp |-> regexp]
         ELSE analyze_query_loop(s, p + 2, Append(res, At(s, p + 1)), regexp)
    ELSE analyze_query_loop(s, p + 1, Append(res, At(s, p)),
                            regexp \/ IsWildcard(At(s, p)))

\* analyze_query(s, res): the query type returned and res.  isnull tells
\* that s is the null pointer.
analyze_query(isnull, s) ==
    IF isnull \/ s = <<>> THEN [type |-> "qtSIMPLE", res |-> <<>>]
    ELSE IF s[1] = 47 THEN [type |-> "qtFUZZY", res |-> Tail(s)]
    ELSE IF s[1] = 124 THEN [type |-> "qtDATA", res |-> Tail(s)]
    ELSE LET Done(l) == [type |-> IF l.regexp THEN "qtREGEXP" ELSE "qtSIMPLE",
                         res |-> l.res]
         IN  Done(analyze_query_loop(s, 0, <<>>, FALSE))

(***************************************************************************)
(* Specification SpecQuery: analyze_query is called on a query string      *)
(***************************************************************************)
MaxQueryLen == 3

QueryAlphabet == {Code("a"), Code("*"), Code("?"), Code("\\"), Code("/"), Code("|")}

QueryStrings == StringsUpTo(QueryAlphabet, MaxQueryLen)

\* A query string, or the null pointer.
InitQuery ==
    /\ \/ \E s \in QueryStrings : ret = [op |-> "query", isnull |-> FALSE, s |-> s]
       \/ ret = [op |-> "query", isnull |-> TRUE, s |-> <<>>]
    /\ oLib = <<>>
    /\ fuzzy_ = FALSE
    /\ fz = NoFuzzy
    /\ s1 = <<>> /\ s2 = <<>> /\ s3 = <<>> /\ cmp = NoCmp
    /\ disk = NoDisk

AnalyzeQuery ==
    /\ ret.op = "query"
    /\ \E r \in {analyze_query(ret.isnull, ret.s)} :
          ret' = [op |-> "analyze_query", isnull |-> ret.isnull, s |-> ret.s,
                  type |-> r.type, res |-> r.res]
    /\ UNCHANGED <<s1, s2, s3, cmp, oLib, fuzzy_, fz, disk>>

NextQuery == AnalyzeQuery

SpecQuery == InitQuery /\ [][NextQuery]_vars

\* The backslash at position i of s escapes: it is a backslash behind an
\* even number of backslashes in a row.
RECURSIVE BackslashesBefore(_, _)
BackslashesBefore(s, i) ==
    IF i > 1 /\ s[i - 1] = 92 THEN 1 + BackslashesBefore(s, i - 1) ELSE 0

Escaping(s, i) == s[i] = 92 /\ BackslashesBefore(s, i) % 2 = 0

\* s from position i on without its escaping backslashes.
RECURSIVE Unescaped(_, _)
Unescaped(s, i) ==
    IF i > Len(s) THEN <<>>
    ELSE (IF Escaping(s, i) THEN <<>> ELSE <<s[i]>>) \o Unescaped(s, i + 1)

\* s holds a '*' or '?' that no escaping backslash precedes.
HasFreeWildcard(s) ==
    \E i \in 1..Len(s) :
        /\ s[i] \in {42, 63}
        /\ ~(i > 1 /\ Escaping(s, i - 1))

\* C14: analyze_query classifies every query string: empty or null gives
\* SIMPLE with payload ""; a leading '/' gives FUZZY and a leading '|' gives
\* DATA, with the rest as payload; otherwise REGEXP iff the string holds a
\* '*' or '?' not preceded by an escaping backslash, else SIMPLE, and for
\* both the payload is the query with each escaping backslash removed and
\* the escaped byte kept verbatim.
C14_Classification ==
    ret.op = "analyze_query" =>
        IF ret.isnull \/ ret.s = <<>>
        THEN ret.type = "qtSIMPLE" /\ ret.res = <<>>
        ELSE IF ret.s[1] = 47
        THEN ret.type = "qtFUZZY" /\ ret.res = Tail(ret.s)
        ELSE IF ret.s[1] = 124
        THEN ret.type = "qtDATA" /\ ret.res = Tail(ret.s)
        ELSE /\ ret.type = (IF HasFreeWildcard(ret.s) THEN "qtREGEXP"
                            ELSE "qtSIMPLE")
             /\ ret.res = Unescaped(ret.s, 1)

\* The query \\? (an escaped backslash, then a free '?') was classified as
\* REGEXP with payload \?.
C14_Witness ==
    /\ ret.op = "analyze_query"
    /\ ret.s = Str(<<"\\", "\\", "?">>)
    /\ ret.type = "qtREGEXP"
    /\ ret.res = Str(<<"\\", "?">>)

(***************************************************************************)
(* DictBase::GetWordData                                                   *)
(*                                                                         *)
(* The data returned is the sequence of the bytes written to the buffer.   *)
(* A memcpy or strlen that leaves the record read from the file is         *)
(* reported as "wild".                                                     *)
(***************************************************************************)
WORDDATA_CACHE_NUM == 2

\* set_uint32(addr, n): the four bytes written, in the byte order of the
\* host.
set_uint32(n, hostBE) ==
    IF hostBE THEN BE32(n) ELSE <<BE32(n)[4], BE32(n)[3], BE32(n)[2], BE32(n)[1]>>

\* Whether a field of this type ends at a NUL (otherwise it has a length).
EndsAtNul(type) == type \in SearchedTypes \/ ~g_ascii_isupper(type)

\* Mutant of LastField: the last text is copied without the NUL added.
LastField_NoTerminator(type, bytes, hostBE) ==
    IF EndsAtNul(type) THEN <<type>> \o bytes
    ELSE <<type>> \o set_uint32(Len(bytes), hostBE) \o bytes

\* The last item written: its type, then the text and an added NUL, or the
\* size and the bytes.
LastField(type, bytes, hostBE) ==
    IF EndsAtNul(type) THEN <<type>> \o bytes \o <<0>>
    ELSE <<type>> \o set_uint32(Len(bytes), hostBE) \o bytes

\* The copy of the items i .. of a record with a sametypesequence, p2 being
\* the offset read from and out the bytes written behind the leading size.
RECURSIVE GetWordData_items(_, _, _, _, _, _)
GetWordData_items(sametypesequence, origin_data, hostBE, i, p2, out) ==
    LET Copy(sec_size) ==
            IF p2 + sec_size > Len(origin_data)
            THEN [wild |-> TRUE, out |-> out]
            ELSE GetWordData_items(sametypesequence, origin_data, hostBE,
                     i + 1, p2 + sec_size,
                     out \o <<sametypesequence[i]>>
                         \o SubSeq(origin_data, p2 + 1, p2 + sec_size))
    IN  IF i = Len(sametypesequence)
        THEN [wild |-> FALSE,
              out |-> out \o LastField(sametypesequence[i],
                                       SubSeq(origin_data, p2 + 1, Len(origin_data)),
                                       hostBE)]
        ELSE IF EndsAtNul(sametypesequence[i])
        THEN IF ~HasNul(origin_data, p2) THEN [wild |-> TRUE, out |-> out]
             ELSE Copy(Len(CStrAt(origin_data, p2)) + 1)
        ELSE IF p2 + 4 > Len(origin_data) THEN [wild |-> TRUE, out |-> out]
             ELSE Copy(get_uint32(origin_data, p2, hostBE) + 4)

\* data_size, as computed before the copy.
GetWordData_size(sametypesequence, idxitem_size) ==
    idxitem_size + 4 + Len(sametypesequence)
        + (IF EndsAtNul(sametypesequence[Len(sametypesequence)]) THEN 1 ELSE 4)

\* The data built for the record origin_data when the cache does not hold
\* it.
GetWordData_build(sametypesequence, origin_data, hostBE) ==
    IF sametypesequence # <<>>
    THEN LET Framed(r) ==
                 [wild |-> r.wild,
                  data |-> set_uint32(GetWordData_size(sametypesequence,
                                                       Len(origin_data)), hostBE)
                           \o r.out]
         IN  Framed(GetWordData_items(sametypesequence, origin_data, hostBE,
                                      1, 0, <<>>))
    ELSE [wild |-> FALSE,
          data |-> set_uint32(Len(origin_data) + 4, hostBE) \o origin_data]

\* Mutant of CacheHits: only the first slot of the cache is looked at.
CacheHits_FirstSlot(self, idxitem_offset) ==
    {i \in {1} : self.cache[i].filled /\ self.cache[i].offset = idxitem_offset}

\* The slots of the cache that hold the data of idxitem_offset.
CacheHits(self, idxitem_offset) ==
    {i \in 1..WORDDATA_CACHE_NUM :
        self.cache[i].filled /\ self.cache[i].offset = idxitem_offset}

\* DictBase::GetWordData(idxitem_offset, idxitem_size): the dictionary after
\* the call and the data returned.  A wild copy may end the program
\* (crashed) or return what was written before it.
GetWordData(self, idxitem_offset, idxitem_size, hostBE, crashes) ==
    IF CacheHits(self, idxitem_offset) # {}
    THEN [self |-> self, wild |-> FALSE, crashed |-> FALSE, cached |-> TRUE,
          data |-> self.cache[CHOOSE i \in CacheHits(self, idxitem_offset) :
                       \A k \in CacheHits(self, idxitem_offset) : i <= k].data]
    ELSE LET Built(r) ==
                 IF r.wild /\ crashes
                 THEN [self |-> self, wild |-> TRUE, crashed |-> TRUE,
                       cached |-> FALSE, data |-> <<>>]
                 ELSE [self |-> [self EXCEPT
                                   !.cache[self.cache_cur + 1] =
                                       [filled |-> TRUE, offset |-> idxitem_offset,
                                        data |-> r.data],
                                   !.cache_cur = (self.cache_cur + 1) % WORDDATA_CACHE_NUM],
                       wild |-> r.wild, crashed |-> FALSE, cached |-> FALSE,
                       data |-> r.data]
         IN  Built(GetWordData_build(self.sametypesequence,
                       SubSeq(self.dictfile, idxitem_offset + 1,
                              idxitem_offset + idxitem_size),
                       hostBE))

(***************************************************************************)
(* Specification SpecDecode: the same records are stored in a dictionary   *)
(* with a sametypesequence and in a self-describing one, and the data of   *)
(* an entry is fetched from both, any number of times                      *)
(***************************************************************************)
MaxRecords == 2

\* The type sequences of the dictionaries and the contents of their fields.
TypeSequences ==
    { Str(<<"m">>), Str(<<"m","t">>), Str(<<"W","m">>), Str(<<"m","W">>) }
DecodeContents == {<<>>, Str(<<"h">>)}

FieldsOfTypes(types) ==
    {[i \in 1..Len(types) |-> [type |-> types[i], data |-> c[i]]] :
        c \in [1..Len(types) -> DecodeContents]}

\* The records of a dictionary: one to MaxRecords field lists of one type
\* sequence.
RecordLists == UNION {SeqsUpTo(FieldsOfTypes(types), MaxRecords) : types \in TypeSequences}

\* The .dict file of the records recs, one stored after the other.
RECURSIVE DictFileOf(_, _)
DictFileOf(recs, tagged) ==
    IF recs = <<>> THEN <<>>
    ELSE (IF tagged THEN TaggedRecord(recs[1]) ELSE PlainRecord(recs[1]))
         \o DictFileOf(Tail(recs), tagged)

\* DictBase::DictBase and the facts of Dict::load that GetWordData uses:
\* the .dict file, the offset and size of each entry, an empty cache.  recs
\* and the byte order of the host are kept for reference.
DictBase_load(recs, tagged, hostBE) ==
    [sametypesequence |-> IF tagged THEN <<>> ELSE TypesOf(recs[1]),
     dictfile |-> DictFileOf(recs, tagged),
     entries |-> [j \in 1..Len(recs) |->
                    [offset |-> Len(DictFileOf(SubSeq(recs, 1, j - 1), tagged)),
                     size |-> Len(DictFileOf(SubSeq(recs, j, j), tagged))]],
     cache |-> [i \in 1..WORDDATA_CACHE_NUM |->
                  [filled |-> FALSE, offset |-> 0, data |-> <<>>]],
     cache_cur |-> 0,
     fields |-> recs, hostBE |-> hostBE]

\* Two dictionaries are loaded that hold the same records, the first with a
\* sametypesequence and the second self-describing.
LoadRecords ==
    /\ oLib = <<>>
    /\ ret = NoCall
    /\ \E recs \in RecordLists, hostBE \in BOOLEAN :
          oLib' = <<DictBase_load(recs, FALSE, hostBE),
                    DictBase_load(recs, TRUE, hostBE)>>
    /\ UNCHANGED <<s1, s2, s3, cmp, fuzzy_, fz, ret, disk>>

NoData == [called |-> FALSE]

\* What is kept of a call of GetWordData.
Fetched(r) ==
    [called |-> TRUE, wild |-> r.wild, crashed |-> r.crashed,
     cached |-> r.cached, data |-> r.data]

\* GetWordData for entry j of the first dictionary and, unless that call
\* ended the program, of the second.
WordData ==
    /\ oLib # <<>>
    /\ IF ret.op = "GetWordData" THEN ~ret.res[1].crashed ELSE TRUE
    /\ \E j \in 1..Len(oLib[1].entries), crashes \in BOOLEAN :
          \E r1 \in {GetWordData(oLib[1], oLib[1].entries[j].offset,
                                 oLib[1].entries[j].size, oLib[1].hostBE, crashes)} :
          \E r2 \in {GetWordData(oLib[2], oLib[2].entries[j].offset,
                                 oLib[2].entries[j].size, oLib[2].hostBE, crashes)} :
              IF r1.crashed
              THEN /\ oLib' = oLib
                   /\ ret' = [op |-> "GetWordData", j |-> j,
                              res |-> <<Fetched(r1), NoData>>]
              ELSE /\ oLib' = <<r1.self, r2.self>>
                   /\ ret' = [op |-> "GetWordData", j |-> j,
                              res |-> <<Fetched(r1), Fetched(r2)>>]
    /\ UNCHANGED <<s1, s2, s3, cmp, fuzzy_, fz, disk>>

NextDecode == LoadRecords \/ WordData

SpecDecode == InitLibs /\ [][NextDecode]_vars

\* The framed record from offset p on, the fields i .. of types, without
\* its type tags and without the NUL or the length added to the last field.
RECURSIVE StripFrame(_, _, _, _)
StripFrame(framed, types, i, p) ==
    IF i = Len(types)
    THEN IF types[i] \in SearchedTypes
         THEN SubSeq(framed, p + 2, Len(framed) - 1)
         ELSE SubSeq(framed, p + 6, Len(framed))
    ELSE LET size == IF types[i] \in SearchedTypes
                     THEN Len(CStrAt(framed, p + 1)) + 1
                     ELSE 4 + get_uint32(framed, p + 1, TRUE)
         IN  SubSeq(framed, p + 2, p + 1 + size)
             \o StripFrame(framed, types, i + 1, p + 1 + size)

\* C15: for a well-formed raw record and a non-empty sametypesequence, the
\* data GetWordData returns is a framed record whose leading u32 equals its
\* total byte length, and without that u32, the inserted type tags and the
\* NUL (final string field) or length (final binary field) added at the end
\* it is the original raw bytes.
C15_DecodeRoundTrip ==
    (ret.op = "GetWordData" /\ ret.res[1].called) =>
        /\ ~ret.res[1].crashed
        /\ get_uint32(ret.res[1].data, 0, oLib[1].hostBE) = Len(ret.res[1].data)
        /\ StripFrame(ret.res[1].data, oLib[1].sametypesequence, 1, 4)
               = PlainRecord(oLib[1].fields[ret.j])

\* On a little-endian host the record 00 00 00 01 68 68 of a dictionary
\* with sametypesequence Wm (one byte h, text h) was fetched: the copy of
\* the first item left the record.
C15_Witness ==
    /\ ret.op = "GetWordData"
    /\ ~oLib[1].hostBE
    /\ oLib[1].sametypesequence = Str(<<"W","m">>)
    /\ oLib[1].fields[ret.j] = <<Field("W", <<"h">>), Field("m", <<"h">>)>>
    /\ ret.res[1].wild

\* C16: a record stored without type tags under sametypesequence "mt" is
\* decoded to the same framed bytes, length prefix included, as the record
\* of the same two texts stored self-describingly with inline tags
\* m...NUL t...NUL in a dictionary without sametypesequence.
C16_SchemaEqualsTagged ==
    (/\ ret.op = "GetWordData"
     /\ oLib[1].sametypesequence = Str(<<"m","t">>)) =>
        /\ ret.res[1].called /\ ret.res[2].called
        /\ ~ret.res[1].wild /\ ~ret.res[2].wild
        /\ ret.res[1].data = ret.res[2].data

\* Both dictionaries have returned the frame of the record of the texts h
\* and h: 12 bytes, the first four their count.
C16_Witness ==
    /\ ret.op = "GetWordData"
    /\ oLib[1].sametypesequence = Str(<<"m","t">>)
    /\ oLib[1].fields[ret.j] = <<Field("m", <<"h">>), Field("t", <<"h">>)>>
    /\ oLib[2].sametypesequence = <<>>
    /\ ret.res[2].data = set_uint32(10, oLib[1].hostBE)
                            \o Str(<<"m","h">>) \o <<0>> \o Str(<<"t","h">>) \o <<0>>
    /\ ret.res[1].data = ret.res[2].data

(***************************************************************************)
(* The .oft cache of OffsetIndex                                           *)
(*                                                                         *)
(* disk.idx is the .idx file (its entries, its mtime, whether it can be    *)
(* opened), disk.oft the two cache files <idx>.oft and                     *)
(* <user cache dir>/sdcv/<basename>.oft (whether each exists, its mtime,   *)
(* its bytes), disk.cachedir the state of the cache directory, disk.now    *)
(* the time a file written now gets, and disk.hostBE the byte order of the *)
(* host.                                                                   *)
(***************************************************************************)
\* "StarDict's Cache, Version: 0.2"
CACHE_MAGIC ==
    <<83, 116, 97, 114, 68, 105, 99, 116, 39, 115, 32, 67, 97, 99, 104, 101,
      44, 32, 86, 101, 114, 115, 105, 111, 110, 58, 32, 48, 46, 50>>

CACHE_MAGIC_BYTES == 1369756097

\* The first n bytes of the mapped file, bytes behind its end reading as 0.
Mapped(bytes, from, n) == [i \in 1..n |-> At(bytes, from + i - 1)]

\* Mutant of fwrite_table: the offsets are written big-endian on any host.
RECURSIVE fwrite_table_BigEndian(_, _)
fwrite_table_BigEndian(wordoffset, hostBE) ==
    IF wordoffset = <<>> THEN <<>>
    ELSE set_uint32(wordoffset[1], TRUE)
             \o fwrite_table_BigEndian(Tail(wordoffset), hostBE)

\* fwrite(&wordoffset[0], sizeof(wordoffset[0]), wordoffset.size(), out):
\* each offset as a u32 in the byte order of the host.
RECURSIVE fwrite_table(_, _)
fwrite_table(wordoffset, hostBE) ==
    IF wordoffset = <<>> THEN <<>>
    ELSE set_uint32(wordoffset[1], hostBE) \o fwrite_table(Tail(wordoffset), hostBE)

\* memcpy(&wordoffset[0], mf.begin() + strlen(CACHE_MAGIC) + sizeof(guint32),
\* wordoffset.size() * sizeof(wordoffset[0])).
memcpy_table(bytes, npages, hostBE) ==
    [k \in 1..npages |->
        get_uint32(bytes, Len(CACHE_MAGIC) + 4 + 4 * (k - 1), hostBE)]

\* OffsetIndex::get_cache_variant: the cache files to try, in order, and
\* the cache directory afterwards (a missing one is created if it can be).
get_cache_variant(cachedir) ==
    IF cachedir = "blocked" THEN [variants |-> <<1>>, cachedir |-> cachedir]
    ELSE [variants |-> <<1, 2>>, cachedir |-> "dir"]

\* Mutant of load_cache_accepts: the age of the cache file is not looked at.
load_cache_accepts_AnyAge(d, item) ==
    /\ d.idx.exists /\ d.oft[item].exists
    /\ Mapped(d.oft[item].bytes, 0, Len(CACHE_MAGIC)) = CACHE_MAGIC
    /\ Mapped(d.oft[item].bytes, Len(CACHE_MAGIC), 4)
           = set_uint32(CACHE_MAGIC_BYTES, d.hostBE)

\* The tests load_cache makes on one cache file before it copies the table.
load_cache_accepts(d, item) ==
    /\ d.idx.exists /\ d.oft[item].exists
    /\ ~(d.oft[item].mtime < d.idx.mtime)
    /\ Mapped(d.oft[item].bytes, 0, Len(CACHE_MAGIC)) = CACHE_MAGIC
    /\ Mapped(d.oft[item].bytes, Len(CACHE_MAGIC), 4)
           = set_uint32(CACHE_MAGIC_BYTES, d.hostBE)

\* OffsetIndex::load_cache: the loop over the variants from position k
\* on.  short tells that the file taken ends before the table does.
RECURSIVE load_cache(_, _, _, _)
load_cache(d, variants, k, npages) ==
    IF k > Len(variants) THEN [ok |-> FALSE, from |-> 0, short |-> FALSE, wordoffset |-> <<>>]
    ELSE IF load_cache_accepts(d, variants[k])
    THEN [ok |-> TRUE, from |-> variants[k],
          short |-> Len(d.oft[variants[k]].bytes) < Len(CACHE_MAGIC) + 4 + 4 * npages,
          wordoffset |-> memcpy_table(d.oft[variants[k]].bytes, npages, d.hostBE)]
    ELSE load_cache(d, variants, k + 1, npages)

\* What one pass of the loop of save_cache leaves in the file: fails is
\* "fopen" if the file cannot be opened for writing, "magic", "sentinel" or
\* "table" if that fwrite comes short, "none" if all is written.
save_cache_file(d, item, wordoffset, fails) ==
    IF fails = "fopen" THEN d.oft[item]
    ELSE [exists |-> TRUE, mtime |-> d.now, saved |-> fails = "none",
          bytes |-> IF fails = "magic" THEN <<>>
                    ELSE IF fails = "sentinel" THEN CACHE_MAGIC
                    ELSE IF fails = "table"
                    THEN CACHE_MAGIC \o set_uint32(CACHE_MAGIC_BYTES, d.hostBE)
                    ELSE CACHE_MAGIC \o set_uint32(CACHE_MAGIC_BYTES, d.hostBE)
                             \o fwrite_table(wordoffset, d.hostBE)]

\* OffsetIndex::save_cache: the loop over the variants from position k
\* on; fails[item] is what goes wrong with cache file item.
RECURSIVE save_cache(_, _, _, _, _)
save_cache(d, variants, k, wordoffset, fails) ==
    IF k > Len(variants) THEN [ok |-> FALSE, disk |-> d]
    ELSE LET Closed(nd) ==
                 IF fails[variants[k]] = "none" THEN [ok |-> TRUE, disk |-> nd]
                 ELSE save_cache(nd, variants, k + 1, wordoffset, fails)
         IN  Closed([d EXCEPT !.oft[variants[k]] =
                        save_cache_file(d, variants[k], wordoffset, fails[variants[k]])])

\* Whether every slot of the table holds the start of an entry of the file
\* or its end, so that the anchors can be read through it.
ReadableTable(file, wordoffset) ==
    LET f == fopen(file)
        end == ScanOffsets(file, Len(file))[Len(ScanOffsets(file, Len(file)))]
    IN  /\ \A k \in 1..(Len(wordoffset) - 1) :
               EntryAtOffset(f, wordoffset[k], 0, Len(file) - 1) # -1
        /\ wordoffset[Len(wordoffset)] = end

\* OffsetIndex::load(url, wc, fsize, verbose) on the disk d: whether it
\* succeeds, the index, the disk afterwards, where the table came from (0:
\* computed) and whether a save was attempted and succeeded.  The index is
\* built when the table taken lets the anchors be read; a table that does
\* not is reported as garbled.
OffsetIndex_load_url(d, wc, fails) ==
    LET npages == (wc - 1) \div ENTR_PER_PAGE + 2
        Finish(r) ==
            IF ~d.idx.readable
            THEN [r EXCEPT !.ok = FALSE]
            ELSE IF r.short \/ ~ReadableTable(d.idx.file, r.wordoffset)
            THEN [r EXCEPT !.garbled = TRUE]
            ELSE [r EXCEPT !.self = OffsetIndex_open(d.idx.file, wc, r.wordoffset)]
        Result(c, v) ==
            IF c.ok
            THEN Finish([ok |-> TRUE, from |-> c.from, short |-> c.short,
                         garbled |-> FALSE, wordoffset |-> c.wordoffset,
                         attempted |-> FALSE, saved |-> FALSE, self |-> <<>>,
                         disk |-> [d EXCEPT !.cachedir = v.cachedir]])
            ELSE IF ~d.idx.readable
            THEN [ok |-> FALSE, from |-> 0, short |-> FALSE, garbled |-> FALSE,
                  wordoffset |-> <<>>, attempted |-> FALSE, saved |-> FALSE,
                  self |-> <<>>, disk |-> [d EXCEPT !.cachedir = v.cachedir]]
            ELSE LET Saved(s) ==
                         Finish([ok |-> TRUE, from |-> 0, short |-> FALSE,
                                 garbled |-> FALSE,
                                 wordoffset |-> ScanOffsets(d.idx.file, wc),
                                 attempted |-> TRUE, saved |-> s.ok,
                                 self |-> <<>>, disk |-> s.disk])
                 IN  Saved(save_cache([d EXCEPT !.cachedir = v.cachedir], v.variants,
                                      1, ScanOffsets(d.idx.file, wc), fails))
        Variants(v) == Result(load_cache(d, v.variants, 1, npages), v)
    IN  Variants(get_cache_variant(d.cachedir))

(***************************************************************************)
(* Specification SpecCache: an .idx file is loaded as an OffsetIndex, with *)
(* whatever cache files are on the disk; the program ends and is run again *)
(***************************************************************************)
\* A .idx file of one entry and one of ENTR_PER_PAGE + 1 entries.
CacheIndexFiles ==
    { <<KeyUniverse[1]>>,
      Repeat(KeyUniverse[1], ENTR_PER_PAGE) \o <<KeyUniverse[2]>> }

\* A table for file that differs from the computed one where it can: the
\* pages after the first begin one entry early.
OtherTable(file) ==
    LET t == ScanOffsets(file, Len(file))
        f == fopen(file)
    IN  [k \in 1..Len(t) |->
            IF k > 1 /\ k < Len(t)
            THEN El(f.starts, EntryAtOffset(f, t[k], 0, Len(file) - 1) - 1)
            ELSE t[k]]

OftHeader(hostBE) == CACHE_MAGIC \o set_uint32(CACHE_MAGIC_BYTES, hostBE)

NoOft == [exists |-> FALSE, mtime |-> 0, saved |-> FALSE, bytes |-> <<>>]

OftOf(mtime, bytes) ==
    [exists |-> TRUE, mtime |-> mtime, saved |-> FALSE, bytes |-> bytes]

\* The cache files that may lie beside an .idx file of mtime 1: none; a
\* cache of the file, as old as it or older; a cache with another table; a
\* cache with another version in its magic string; a cache written on a
\* host of the other byte order; a cache cut off inside its table.
OftFiles(file, hostBE) ==
    { NoOft,
      OftOf(1, OftHeader(hostBE) \o fwrite_table(ScanOffsets(file, Len(file)), hostBE)),
      OftOf(0, OftHeader(hostBE) \o fwrite_table(ScanOffsets(file, Len(file)), hostBE)),
      OftOf(1, OftHeader(hostBE) \o fwrite_table(OtherTable(file), hostBE)),
      OftOf(2, [OftHeader(hostBE) EXCEPT ![Len(CACHE_MAGIC)] = 49]
                   \o fwrite_table(ScanOffsets(file, Len(file)), hostBE)),
      OftOf(1, OftHeader(~hostBE) \o fwrite_table(ScanOffsets(file, Len(file)), ~hostBE)),
      OftOf(1, OftHeader(hostBE) \o set_uint32(0, hostBE)) }

\* The second cache file is absent, a cache of the file, fresh or stale, or
\* a cache with another table.
OftFiles2(file, hostBE) ==
    { f \in OftFiles(file, hostBE) :
        f.bytes \in {<<>>,
                     OftHeader(hostBE) \o fwrite_table(ScanOffsets(file, Len(file)), hostBE),
                     OftHeader(hostBE) \o fwrite_table(OtherTable(file), hostBE)} }

InitCache ==
    /\ \E file \in CacheIndexFiles, hostBE \in BOOLEAN, readable \in BOOLEAN,
          cachedir \in {"dir", "missing", "blocked"} :
          \E oft1 \in OftFiles(file, hostBE), oft2 \in OftFiles2(file, hostBE) :
              disk = [idx |-> [exists |-> TRUE, readable |-> readable,
                               mtime |-> 1, file |-> file],
                      oft |-> <<oft1, IF cachedir = "dir" THEN oft2 ELSE NoOft>>,
                      cachedir |-> cachedir, now |-> 2, hostBE |-> hostBE]
    /\ oLib = <<>>
    /\ fuzzy_ = FALSE
    /\ fz = NoFuzzy
    /\ ret = NoCall
    /\ s1 = <<>> /\ s2 = <<>> /\ s3 = <<>> /\ cmp = NoCmp

SaveFailures == {"none", "fopen", "table"}

\* OffsetIndex::load on the .idx file of the disk.  ret keeps the cache
\* files as they were before the call.
LoadOffsetIndex ==
    /\ oLib = <<>>
    /\ ret = NoCall
    /\ \E fails \in [1..2 -> SaveFailures] :
          \E r \in {OffsetIndex_load_url(disk, Len(disk.idx.file), fails)} :
              /\ oLib' = IF r.ok /\ ~r.garbled THEN <<[idx_file |-> r.self]>> ELSE <<>>
              /\ disk' = r.disk
              /\ ret' = [op |-> "load", ok |-> r.ok, from |-> r.from,
                         garbled |-> r.garbled, wordoffset |-> r.wordoffset,
                         attempted |-> r.attempted, saved |-> r.saved,
                         before |-> disk.oft]
    /\ UNCHANGED <<s1, s2, s3, cmp, fuzzy_, fz>>

\* The program ends; the disk stays as it is.
Exit ==
    /\ ret # NoCall
    /\ oLib' = <<>>
    /\ ret' = NoCall
    /\ UNCHANGED <<s1, s2, s3, cmp, fuzzy_, fz, disk>>

NextCache == LoadOffsetIndex \/ Exit

SpecCache == InitCache /\ [][NextCache]_vars

\* The table that scanning the .idx file of the disk gives.
ScannedTable == ScanOffsets(disk.idx.file, Len(disk.idx.file))

\* C17: a page-offset table written by save_cache and read back by
\* load_cache for the same .idx file and wordcount is identical, entry for
\* entry, to the table computed by scanning the .idx file.
C17_CacheRoundTrip ==
    (ret.op = "load" /\ ret.from >= 1 /\ ret.before[ret.from].saved) =>
        /\ ~ret.garbled
        /\ ret.wordoffset = ScannedTable

\* On a little-endian host the table of three offsets of the .idx file of
\* ENTR_PER_PAGE + 1 entries was read back from the cache file in the cache
\* directory, where an earlier run had saved it.
C17_Witness ==
    /\ ret.op = "load"
    /\ ret.from = 2
    /\ ret.before[2].saved
    /\ ~disk.hostBE
    /\ Len(ret.wordoffset) = 3
    /\ ret.wordoffset[2] > 0
    /\ oLib # <<>>

\* The cache file f has the magic string and the sentinel of this host and
\* is not older than the .idx file.
Qualifies(f) ==
    /\ f.exists
    /\ f.mtime >= disk.idx.mtime
    /\ Len(f.bytes) >= Len(CACHE_MAGIC) + 4
    /\ SubSeq(f.bytes, 1, Len(CACHE_MAGIC)) = CACHE_MAGIC
    /\ SubSeq(f.bytes, Len(CACHE_MAGIC) + 1, Len(CACHE_MAGIC) + 4)
           = (IF disk.hostBE THEN <<81, 164, 209, 193>> ELSE <<193, 209, 164, 81>>)

\* C18: OffsetIndex::load takes its page-offset table from an .oft file
\* only if that file's mtime is >= the .idx mtime and its magic string and
\* its u32 sentinel match, <idx>.oft being tried before the file in the
\* user cache directory; when no candidate qualifies the table is computed
\* from the .idx file and a save is attempted, and a failed save does not
\* fail the load.
C18_CacheUse ==
    ret.op = "load" =>
        /\ ret.from >= 1 => Qualifies(ret.before[ret.from])
        /\ Qualifies(ret.before[1]) => ret.from = 1
        /\ Qualifies(ret.before[2]) => ret.from >= 1
        /\ (~Qualifies(ret.before[1]) /\ ~Qualifies(ret.before[2])
                /\ disk.idx.readable) =>
               /\ ret.from = 0
               /\ ret.wordoffset = ScannedTable
               /\ ret.attempted
        /\ (ret.attempted /\ ~ret.saved) => (ret.ok /\ oLib # <<>>)

\* Beside the .idx file and in the cache directory lay caches of it that
\* are older than the file; the table was computed, the save failed on both
\* files and the index is loaded.
C18_Witness ==
    /\ ret.op = "load"
    /\ ret.before[1].exists /\ ret.before[1].mtime < disk.idx.mtime
    /\ ret.before[2].exists /\ ret.before[2].mtime < disk.idx.mtime
    /\ ret.from = 0
    /\ ret.attempted /\ ~ret.saved
    /\ ret.ok
    /\ Len(oLib) = 1
    /\ oLib[1].idx_file.wordoffset = ScannedTable


(***************************************************************************)
(* The .ifo file: DictInfo::load_from_ifo_file                             *)
(*                                                                         *)
(* A file is [exists, bytes]; positions in the buffer are 0-based, end is  *)
(* the length of the buffer.                                               *)
(***************************************************************************)
\* g_ascii_isspace of GLib: space, \t, \n, \f and \r.
g_ascii_isspace(ch) == ch \in {32, 9, 10, 12, 13}

\* magic_data: DICT_MAGIC_DATA, "StarDict's dict ifo file", or
\* TREEDICT_MAGIC_DATA, "StarDict's treedict ifo file".
magic_data(istreedict) ==
    IF istreedict
    THEN <<83,116,97,114,68,105,99,116,39,115,32,
           116,114,101,101,100,105,99,116,32,105,102,111,32,102,105,108,101>>
    ELSE <<83,116,97,114,68,105,99,116,39,115,32,
           100,105,99,116,32,105,102,111,32,102,105,108,101>>

utf8_bom == <<239, 187, 191>>

\* g_str_has_prefix(p, prefix) for p at position p of the NUL-terminated
\* buffer.
g_str_has_prefix(buffer, p, prefix) ==
    \A i \in 1..Len(prefix) : At(buffer, p + i - 1) = prefix[i]

\* std::find / std::find_if over [p, end): the first position whose byte
\* is in chars, or end.
std_find(buffer, p, end, chars) ==
    IF \E q \in p..(end - 1) : At(buffer, q) \in chars
    THEN CHOOSE q \in p..(end - 1) :
             /\ At(buffer, q) \in chars
             /\ \A r \in p..(q - 1) : At(buffer, r) \notin chars
    ELSE end

NotSpace == {ch \in 0..255 : ~g_ascii_isspace(ch)}

\* std::string(from, to).
std_string(buffer, from, to) == [i \in 1..(to - from) |-> buffer[from + i]]

\* std::map::insert: a key that is in the map keeps its value.
map_insert(map, key, value) ==
    IF \E i \in 1..Len(map) : map[i][1] = key THEN map
    ELSE Append(map, <<key, value>>)

map_has(map, key) == \E i \in 1..Len(map) : map[i][1] = key
map_find(map, key) == map[CHOOSE i \in 1..Len(map) : map[i][1] = key][2]

\* The while loop of load_from_ifo_file from position p on: [ok, map].
RECURSIVE key_value_map(_, _, _, _)
key_value_map(buffer, p, end, map) ==
    LET Line(key_it, eq_it, val_it, line_end_it) ==
            IF line_end_it = end
            THEN [ok |-> TRUE,
                  map |-> map_insert(map, std_string(buffer, key_it, eq_it),
                                     std_string(buffer, val_it, line_end_it))]
            ELSE key_value_map(buffer, line_end_it + 1, end,
                     map_insert(map, std_string(buffer, key_it, eq_it),
                                std_string(buffer, val_it, line_end_it)))
        Value(key_it, eq_it, val_it) ==
            IF val_it = end
            THEN [ok |-> TRUE,
                  map |-> map_insert(map, std_string(buffer, key_it, eq_it), <<>>)]
            ELSE Line(key_it, eq_it, val_it,
                      std_find(buffer, val_it, end, {13, 10}))
        Key(key_it, eq_it) ==
            IF eq_it = end THEN [ok |-> FALSE, map |-> map]
            ELSE Value(key_it, eq_it, std_find(buffer, eq_it + 1, end, NotSpace))
        Pair(key_it) ==
            IF key_it = end THEN [ok |-> TRUE, map |-> map]
            ELSE Key(key_it, std_find(buffer, key_it, end, {61}))
    IN  IF p = end THEN [ok |-> TRUE, map |-> map]
        ELSE Pair(std_find(buffer, p, end, NotSpace))

\* atol for the values met here: optional white space, the decimal digits
\* up to the first other byte; 0 when there is none.
atol(s) ==
    LET RECURSIVE Digits(_, _)
        Digits(i, n) ==
            IF At(s, i) \in 48..57 THEN Digits(i + 1, 10 * n + At(s, i) - 48)
            ELSE n
    IN  Digits(std_find(s, 0, Len(s), NotSpace), 0)

Key_wordcount == Str(<<"w","o","r","d","c","o","u","n","t">>)
Key_idxfilesize == Str(<<"i","d","x","f","i","l","e","s","i","z","e">>)
Key_tdxfilesize == Str(<<"t","d","x","f","i","l","e","s","i","z","e">>)
Key_bookname == Str(<<"b","o","o","k","n","a","m","e">>)
Key_author == Str(<<"a","u","t","h","o","r">>)
Key_email == Str(<<"e","m","a","i","l">>)
Key_website == Str(<<"w","e","b","s","i","t","e">>)
Key_date == Str(<<"d","a","t","e">>)
Key_description == Str(<<"d","e","s","c","r","i","p","t","i","o","n">>)
Key_sametypesequence ==
    Str(<<"s","a","m","e","t","y","p","e","s","e","q","u","e","n","c","e">>)
Key_synwordcount == Str(<<"s","y","n","w","o","r","d","c","o","u","n","t">>)

\* FIND_KEY for the required keys and SET_IF_EXISTS for the others, on a
\* DictInfo whose strings are empty.
DictInfo_fields(istreedict, map) ==
    LET SET_IF_EXISTS(key) ==
            IF map_has(map, key) THEN map_find(map, key) ELSE <<>>
        size == IF istreedict THEN Key_tdxfilesize ELSE Key_idxfilesize
    IN  IF ~map_has(map, Key_wordcount) \/ ~map_has(map, size)
           \/ ~map_has(map, Key_bookname)
        THEN [ok |-> FALSE]
        ELSE [ok |-> TRUE,
              wordcount |-> atol(map_find(map, Key_wordcount)),
              index_file_size |-> atol(map_find(map, size)),
              bookname |-> map_find(map, Key_bookname),
              author |-> SET_IF_EXISTS(Key_author),
              email |-> SET_IF_EXISTS(Key_email),
              website |-> SET_IF_EXISTS(Key_website),
              date |-> SET_IF_EXISTS(Key_date),
              description |-> SET_IF_EXISTS(Key_description),
              sametypesequence |-> SET_IF_EXISTS(Key_sametypesequence),
              syn_wordcount |-> IF map_has(map, Key_synwordcount)
                                THEN atol(map_find(map, Key_synwordcount))
                                ELSE 0]

\* DictInfo::load_from_ifo_file: [ok] on failure, the fields on success.
load_from_ifo_file(file, istreedict) ==
    LET Parsed(r) ==
            IF ~r.ok THEN [ok |-> FALSE]
            ELSE DictInfo_fields(istreedict, r.map)
        Body(p) ==
            IF ~g_str_has_prefix(file.bytes, p, magic_data(istreedict))
            THEN [ok |-> FALSE]
            ELSE Parsed(key_value_map(file.bytes,
                                      p + Len(magic_data(istreedict)),
                                      Len(file.bytes), <<>>))
    IN  IF ~file.exists THEN [ok |-> FALSE]
        ELSE Body(IF g_str_has_prefix(file.bytes, 0, utf8_bom)
                  THEN Len(utf8_bom) ELSE 0)


(***************************************************************************)
(* Specification SpecIfo: .ifo files of a header line and up to            *)
(* MaxIfoLines different lines, parsed by load_from_ifo_file.              *)
(***************************************************************************)
MaxIfoLines == 4

\* A line key=value with its line end; number is what the value reads as.
IfoLine(key, value, number, eol) ==
    [eq |-> TRUE, key |-> key, value |-> value, number |-> number, eol |-> eol]

\* The lines of the files: the required keys, an optional key with a value
\* and one without, synwordcount, and a line without '='.  bookname has
\* white space behind its value and ends in CR LF.
IfoLines ==
    { IfoLine(Key_wordcount, <<49>>, 1, <<10>>),
      IfoLine(Key_idxfilesize, <<57>>, 9, <<10>>),
      IfoLine(Key_tdxfilesize, <<57>>, 9, <<10>>),
      IfoLine(Key_bookname, <<98, 32>>, 0, <<13, 10>>),
      IfoLine(Key_email, <<101>>, 0, <<10>>),
      IfoLine(Key_author, <<>>, 0, <<10>>),
      IfoLine(Key_synwordcount, <<50>>, 2, <<10>>),
      [eq |-> FALSE, key |-> Str(<<"j","u","n","k">>), value |-> <<>>,
       number |-> 0, eol |-> <<10>>] }

\* The sequences of different lines of length 0..n.
RECURSIVE IfoBodies(_)
IfoBodies(n) ==
    IF n = 0 THEN {<<>>}
    ELSE {b \in IfoBodies(n - 1) \cup
                {Append(b, l) : b \in IfoBodies(n - 1), l \in IfoLines} :
             \A i \in 1..Len(b), j \in 1..Len(b) : b[i] = b[j] => i = j}

\* The bytes of the lines; the end of the last line is left out when cut.
RECURSIVE IfoText(_, _)
IfoText(lines, cut) ==
    IF lines = <<>> THEN <<>>
    ELSE lines[1].key \o (IF lines[1].eq THEN <<61>> ELSE <<>>)
             \o lines[1].value
             \o (IF cut /\ Len(lines) = 1 THEN <<>> ELSE lines[1].eol)
             \o IfoText(Tail(lines), cut)

\* The header line: the magic string of a dictionary, that of a tree
\* dictionary, or the former with its last byte changed.
IfoHeader(header) ==
    CASE header = "dict" -> magic_data(FALSE)
      [] header = "tree" -> magic_data(TRUE)
      [] header = "bad"  -> [magic_data(FALSE) EXCEPT ![Len(magic_data(FALSE))] = 115]

IfoFile(bom, header, lines, cut) ==
    [exists |-> TRUE,
     bytes |-> (IF bom THEN utf8_bom ELSE <<>>) \o IfoHeader(header) \o <<10>>
                   \o IfoText(lines, cut)]

InitIfo ==
    /\ s1 = <<>> /\ s2 = <<>> /\ s3 = <<>>
    /\ cmp = NoCmp
    /\ oLib = <<>>
    /\ fuzzy_ = TRUE
    /\ fz = NoFuzzy
    /\ \E bom \in BOOLEAN, cut \in BOOLEAN, lines \in IfoBodies(MaxIfoLines),
          kind \in {<<"dict", FALSE>>, <<"tree", TRUE>>,
                    <<"dict", TRUE>>, <<"bad", FALSE>>} :
          /\ disk = [idx |-> "none",
                     ifo |-> IfoFile(bom, kind[1], lines, cut)]
          /\ ret = [op |-> "ifo", bom |-> bom, header |-> kind[1],
                    istreedict |-> kind[2], lines |-> lines, cut |-> cut]

\* load_from_ifo_file(ifofilename, istreedict) on the file of the disk.
ParseIfo ==
    /\ ret.op = "ifo"
    /\ ret' = [op |-> "load_from_ifo_file", bom |-> ret.bom,
               header |-> ret.header, istreedict |-> ret.istreedict,
               lines |-> ret.lines, cut |-> ret.cut,
               res |-> load_from_ifo_file(disk.ifo, ret.istreedict)]
    /\ UNCHANGED <<s1, s2, s3, cmp, oLib, fuzzy_, fz, disk>>

NextIfo == ParseIfo

SpecIfo == InitIfo /\ [][NextIfo]_vars

\* Line i of the file gives a pair: it has a '=' and the line before it,
\* if there is one, has one too (a key runs up to the next '=').
GivesPair(lines, i) == lines[i].eq /\ (i = 1 \/ lines[i - 1].eq)

IfoHas(lines, key) ==
    \E i \in 1..Len(lines) : GivesPair(lines, i) /\ lines[i].key = key

IfoLineOf(lines, key) ==
    lines[CHOOSE i \in 1..Len(lines) : GivesPair(lines, i) /\ lines[i].key = key]

IfoValue(lines, key) ==
    IF IfoHas(lines, key) THEN IfoLineOf(lines, key).value ELSE <<>>

\* The file of the call parses: the magic string is the expected one, the
\* last key has its '=', and the required keys are there.
IfoParses ==
    /\ ret.header = (IF ret.istreedict THEN "tree" ELSE "dict")
    /\ (ret.lines # <<>> => ret.lines[Len(ret.lines)].eq)
    /\ IfoHas(ret.lines, Key_wordcount)
    /\ IfoHas(ret.lines, Key_bookname)
    /\ IfoHas(ret.lines, IF ret.istreedict THEN Key_tdxfilesize
                         ELSE Key_idxfilesize)

\* What the claim says of the call that was made.
IfoAsClaimed ==
    /\ ret.res.ok = IfoParses
    /\ ret.res.ok =>
          /\ ret.res.wordcount = 1
          /\ ret.res.index_file_size = 9
          /\ ret.res.bookname = <<98, 32>>
          /\ ret.res.email = IfoValue(ret.lines, Key_email)
          /\ ret.res.author = <<>>
          /\ ret.res.website = <<>> /\ ret.res.date = <<>>
          /\ ret.res.description = <<>> /\ ret.res.sametypesequence = <<>>
          /\ ret.res.syn_wordcount =
                 (IF IfoHas(ret.lines, Key_synwordcount) THEN 2 ELSE 0)

\* C19: parsing an .ifo file fails when the content behind an optional
\* UTF-8 BOM does not start with the expected magic string, when a key is
\* not followed by '=' before the end of the input, or when wordcount,
\* bookname or idxfilesize (tdxfilesize for a tree dictionary) is missing;
\* it succeeds otherwise, absent optional keys leave their fields empty,
\* synwordcount defaults to 0, and values keep their trailing white space.
C19_IfoParse == ret.op = "load_from_ifo_file" => IfoAsClaimed

\* The line author= (no value) stands before another line.
EmptyValueInside(lines) ==
    \E i \in 1..(Len(lines) - 1) : lines[i].eq /\ lines[i].value = <<>>

\* A dictionary's file with the right magic string and the lines author=,
\* wordcount=1, idxfilesize=9 and bookname=b was parsed.
C19_Witness ==
    /\ ret.op = "load_from_ifo_file"
    /\ ret.header = "dict" /\ ~ret.istreedict
    /\ Len(ret.lines) = 4
    /\ ret.lines[1].key = Key_author
    /\ ret.lines[2].key = Key_wordcount
    /\ IfoParses
    /\ ~ret.res.ok


(***************************************************************************)
(* Loading a dictionary: Dict::load_ifofile, Dict::load, Libs::load_dict   *)
(*                                                                         *)
(* The files of a dictionary are [ifo, dictdz, dict, idxgz, idx, oft, syn];*)
(* disk.stems holds them for every .ifo path the library is given.         *)
(***************************************************************************)
\* Dict::load_ifofile: the .ifo file read as that of a dictionary, refused
\* when wordcount is 0.
Dict_load_ifofile(ifo) ==
    LET Info(dict_info) ==
            IF ~dict_info.ok THEN [ok |-> FALSE]
            ELSE IF dict_info.wordcount = 0 THEN [ok |-> FALSE]
            ELSE [ok |-> TRUE,
                  wordcount |-> dict_info.wordcount,
                  syn_wordcount |-> dict_info.syn_wordcount,
                  bookname |-> dict_info.bookname,
                  idxfilesize |-> dict_info.index_file_size,
                  sametypesequence |-> dict_info.sametypesequence]
    IN  Info(load_from_ifo_file(ifo, FALSE))

\* Mutant of DataFileOpens: .dict is tried when .dict.dz does not open.
DataFileOpens_FallBack(fs) ==
    (fs.dictdz.exists /\ fs.dictdz.opens) \/ (fs.dict.exists /\ fs.dict.readable)

\* Dict::load, the data file: DictData::open of .dict.dz if that file
\* exists, else fopen of .dict.
DataFileOpens(fs) ==
    IF fs.dictdz.exists THEN fs.dictdz.opens
    ELSE fs.dict.exists /\ fs.dict.readable

\* The size of an index file in bytes: the offset behind its last entry.
IndexFileSize(file) == ScanOffsets(file, Len(file))[Len(ScanOffsets(file, Len(file)))]

\* The disk as OffsetIndex::load of the .idx file of stem k sees it.
IdxDisk(d, k) ==
    [idx |-> d.stems[k].idx, oft |-> d.stems[k].oft,
     cachedir |-> d.cachedir, now |-> d.now, hostBE |-> d.hostBE]

\* Dict::load(ifofilename) for stem k of the disk d: [ok, self, disk].
Dict_load_url(d, k, fails) ==
    LET fs == d.stems[k]
        Syn(info, idx_file, nd) ==
            [ok |-> TRUE,
             self |-> [bookname |-> info.bookname,
                       wordcount |-> info.wordcount,
                       sametypesequence |-> info.sametypesequence,
                       idx_file |-> idx_file,
                       syn_file |-> SynFile_load(fs.syn.exists /\ fs.syn.readable,
                                                 fs.syn.file, info.syn_wordcount)],
             disk |-> nd]
        Offset(info, r) ==
            IF ~r.ok \/ r.garbled
            THEN [ok |-> FALSE, self |-> <<>>,
                  disk |-> [d EXCEPT !.stems[k].oft = r.disk.oft,
                                     !.cachedir = r.disk.cachedir]]
            ELSE Syn(info, r.self,
                     [d EXCEPT !.stems[k].oft = r.disk.oft,
                               !.cachedir = r.disk.cachedir])
        Index(info) ==
            IF fs.idxgz.exists
            THEN IF ~fs.idxgz.readable
                    \/ IndexFileSize(fs.idxgz.file) # info.idxfilesize
                 THEN [ok |-> FALSE, self |-> <<>>, disk |-> d]
                 ELSE Syn(info, WordListIndex_load(fs.idxgz.file, info.wordcount), d)
            ELSE Offset(info, OffsetIndex_load_url(IdxDisk(d, k), info.wordcount, fails))
        Data(info) ==
            IF ~info.ok \/ ~DataFileOpens(fs)
            THEN [ok |-> FALSE, self |-> <<>>, disk |-> d]
            ELSE Index(info)
    IN  Data(Dict_load_ifofile(fs.ifo))

\* Libs::load_dict(url): the dictionary is pushed behind the ones loaded
\* before it, or deleted.
Libs_load_dict(libs, d, k, fails) ==
    LET Push(r) ==
            [ok |-> r.ok,
             oLib |-> IF r.ok THEN Append(libs, r.self) ELSE libs,
             disk |-> r.disk]
    IN  Push(Dict_load_url(d, k, fails))


(***************************************************************************)
(* Specification SpecLoad: Libs::load_dict is called for MaxStems .ifo     *)
(* paths in turn.  One path has its files in any condition, the others in  *)
(* a few.                                                                  *)
(***************************************************************************)
MaxStems == 2

\* The index of every dictionary, as .idx or unpacked .idx.gz, and its
\* .syn file.
LoadIndexFile == <<DictKeys[1], DictKeys[2]>>
LoadSynFile == <<[key |-> DictKeys[2], idx |-> 0]>>

\* The decimal digits of n.
RECURSIVE Decimal(_)
Decimal(n) ==
    IF n < 10 THEN <<48 + n>> ELSE Decimal(n \div 10) \o <<48 + (n % 10)>>

\* The book name of the dictionary at position i: "a", "b", ...
BookName(i) == <<96 + i>>

\* The .ifo file of dictionary i: good, with wordcount 0, without bookname,
\* or not there.
IfoFileOf(kind, i) ==
    IF kind = "absent" THEN [exists |-> FALSE, bytes |-> <<>>]
    ELSE [exists |-> TRUE,
          bytes |-> magic_data(FALSE) \o <<10>> \o IfoText(
              (IF kind = "nobook" THEN <<>>
               ELSE <<IfoLine(Key_bookname, BookName(i), 0, <<10>>)>>)
              \o <<IfoLine(Key_wordcount,
                           Decimal(IF kind = "zero" THEN 0 ELSE Len(LoadIndexFile)),
                           0, <<10>>),
                   IfoLine(Key_idxfilesize, Decimal(IndexFileSize(LoadIndexFile)),
                           0, <<10>>),
                   IfoLine(Key_synwordcount, Decimal(Len(LoadSynFile)), 0, <<10>>)>>,
              FALSE)]

\* The files of dictionary i in every condition.
StemFiles(i) ==
    { [name |-> BookName(i), ifokind |-> kind, ifo |-> IfoFileOf(kind, i),
       dictdz |-> dictdz, dict |-> dict, idxgz |-> idxgz, idx |-> idx,
       oft |-> <<NoOft, NoOft>>, syn |-> syn] :
        kind \in {"good", "zero", "nobook", "absent"},
        dictdz \in {[exists |-> FALSE, opens |-> FALSE],
                    [exists |-> TRUE, opens |-> TRUE],
                    [exists |-> TRUE, opens |-> FALSE]},
        dict \in {[exists |-> FALSE, readable |-> FALSE],
                  [exists |-> TRUE, readable |-> TRUE],
                  [exists |-> TRUE, readable |-> FALSE]},
        idxgz \in {[exists |-> FALSE, readable |-> FALSE, file |-> <<>>],
                   [exists |-> TRUE, readable |-> TRUE, file |-> LoadIndexFile],
                   [exists |-> TRUE, readable |-> FALSE, file |-> LoadIndexFile]},
        idx \in {[exists |-> FALSE, readable |-> FALSE, mtime |-> 0, file |-> <<>>],
                 [exists |-> TRUE, readable |-> TRUE, mtime |-> 1,
                  file |-> LoadIndexFile]},
        syn \in {[exists |-> FALSE, readable |-> FALSE, file |-> <<>>],
                 [exists |-> TRUE, readable |-> FALSE, file |-> LoadSynFile],
                 [exists |-> TRUE, readable |-> TRUE, file |-> LoadSynFile]} }

\* The files of dictionary i in a few conditions: all there with .dict and
\* .idx, all there with .dict.dz, .idx.gz and a .syn file that cannot be
\* read, no .ifo, no data file.
PlainStems(i) ==
    { fs \in StemFiles(i) :
        /\ fs.ifokind \in {"good", "absent"}
        /\ fs.dictdz.exists = fs.idxgz.exists
        /\ fs.dictdz.exists => (fs.dictdz.opens /\ fs.idxgz.readable /\ ~fs.dict.exists
                                   /\ ~fs.idx.exists /\ fs.ifokind = "good")
        /\ ~fs.dictdz.exists => (fs.idx.exists /\ (fs.dict.exists => fs.dict.readable)
                                    /\ (fs.ifokind = "absent" => fs.dict.exists))
        /\ fs.syn.exists /\ (fs.syn.readable = ~fs.dictdz.exists) }

\* The lists of n file sets of which the one at position pos is in any
\* condition.
RECURSIVE StemLists(_, _)
StemLists(n, pos) ==
    IF n = 0 THEN {<<>>}
    ELSE {Append(l, fs) : l \in StemLists(n - 1, pos),
                          fs \in IF n = pos THEN StemFiles(n) ELSE PlainStems(n)}

InitLoad ==
    /\ s1 = <<>> /\ s2 = <<>> /\ s3 = <<>>
    /\ cmp = NoCmp
    /\ oLib = <<>>
    /\ fuzzy_ = TRUE
    /\ fz = NoFuzzy
    /\ ret = NoCall
    /\ \E pos \in 1..MaxStems :
          \E stems \in StemLists(MaxStems, pos) :
              disk = [idx |-> "none", stems |-> stems, cachedir |-> "blocked",
                      now |-> 2, hostBE |-> FALSE]

\* Libs::load_dict(url) for the next .ifo path; saving the page-offset
\* table works or the cache file cannot be opened.
LoadDictUrl ==
    /\ (IF ret = NoCall THEN 1 ELSE ret.k + 1) <= Len(disk.stems)
    /\ \E fails \in {[i \in 1..2 |-> "none"], [i \in 1..2 |-> "fopen"]} :
          \E r \in {Libs_load_dict(oLib, disk,
                                   IF ret = NoCall THEN 1 ELSE ret.k + 1, fails)} :
              /\ oLib' = r.oLib
              /\ disk' = r.disk
              /\ ret' = [op |-> "load_dict",
                         k |-> IF ret = NoCall THEN 1 ELSE ret.k + 1,
                         ok |-> r.ok, before |-> oLib]
    /\ UNCHANGED <<s1, s2, s3, cmp, fuzzy_, fz>>

NextLoad == LoadDictUrl

SpecLoad == InitLoad /\ [][NextLoad]_vars

\* The files fs are those of a dictionary that loads: the .ifo file parses
\* with a wordcount that is not 0, the data file opens and the index loads.
StemLoads(fs) ==
    /\ fs.ifokind = "good"
    /\ IF fs.dictdz.exists THEN fs.dictdz.opens
       ELSE fs.dict.exists /\ fs.dict.readable
    /\ IF fs.idxgz.exists THEN fs.idxgz.readable
       ELSE fs.idx.exists /\ fs.idx.readable

\* The book names of the first k dictionaries that load, in their order.
RECURSIVE LoadedNames(_, _)
LoadedNames(stems, k) ==
    IF k = 0 THEN <<>>
    ELSE IF StemLoads(stems[k])
    THEN Append(LoadedNames(stems, k - 1), stems[k].name)
    ELSE LoadedNames(stems, k - 1)

\* C20: loading a dictionary succeeds only if the .ifo file parses with a
\* wordcount that is not 0, the data file (.dict.dz if it exists, else
\* .dict) opens and the index (.idx.gz if it exists, else .idx) loads; a
\* dictionary that fails is not added to oLib, the dictionaries loaded
\* before and after it are as they would be without it and in load order,
\* and a missing or unreadable .syn file never fails the load.
C20_LoadDict ==
    ret.op = "load_dict" =>
        /\ ret.ok = StemLoads(disk.stems[ret.k])
        /\ ~ret.ok => oLib = ret.before
        /\ ret.ok =>
              /\ Len(oLib) = Len(ret.before) + 1
              /\ SubSeq(oLib, 1, Len(ret.before)) = ret.before
        /\ [j \in 1..Len(oLib) |-> oLib[j].bookname]
               = LoadedNames(disk.stems, ret.k)
        /\ \A j \in 1..Len(oLib) :
              /\ oLib[j].wordcount = Len(LoadIndexFile)
              /\ \A i \in 0..(oLib[j].wordcount - 1) :
                    idx_file_get_key(oLib[j].idx_file, i) = El(LoadIndexFile, i)

\* The first dictionary has .dict.dz, which does not open, beside a good
\* .dict and was not loaded; the second, whose .syn file cannot be read,
\* was loaded and is alone in oLib.
C20_Witness ==
    /\ ret.op = "load_dict"
    /\ ret.k = 2
    /\ disk.stems[1].ifokind = "good"
    /\ disk.stems[1].dictdz.exists /\ ~disk.stems[1].dictdz.opens
    /\ disk.stems[1].dict.exists /\ disk.stems[1].dict.readable
    /\ disk.stems[1].idx.exists
    /\ disk.stems[2].syn.exists /\ ~disk.stems[2].syn.readable
    /\ ret.ok
    /\ Len(oLib) = 1
    /\ oLib[1].bookname = BookName(2)
    /\ oLib[1].syn_file.size = 0


(***************************************************************************)
(* Specification SpecSimple: a library of two dictionaries is asked for    *)
(* words by Libs::SimpleLookupWord, in either dictionary.                  *)
(***************************************************************************)
W_Walked == Str(<<"W","a","l","k","e","d">>)
W_walke  == Str(<<"w","a","l","k","e">>)
\* "És", "É" and "és" in UTF-8.
W_Es     == <<195, 137, 115>>
W_E      == <<195, 137>>
W_es     == <<195, 169, 115>>

SimpleFiles == {File_walk, File_apple, <<W_walke>>, <<W_E>>, <<W_es>>}

SimpleQueries ==
    {W_walked, W_Walked, W_WALKS, W_walking, W_apple, W_APPLE, W_BaNaNa, W_Es}

\* Libs::load_dict of two dictionaries without .syn files.
LoadSimple ==
    /\ oLib = <<>>
    /\ \E f1 \in SimpleFiles, f2 \in SimpleFiles, gz1 \in BOOLEAN, gz2 \in BOOLEAN :
          oLib' = <<Dict_load(f1, gz1, FALSE, <<>>), Dict_load(f2, gz2, FALSE, <<>>)>>
    /\ fuzzy_' \in BOOLEAN
    /\ ret' = NoCall
    /\ UNCHANGED <<s1, s2, s3, cmp, fz, disk>>

\* SimpleLookupWord(sWord, iWordIndices, iLib) with iWordIndices empty.
\* ret keeps the dictionaries as they were before the call.
SimpleLookup ==
    /\ oLib # <<>>
    /\ \E sWord \in SimpleQueries, iLib \in 0..(Len(oLib) - 1) :
          \E r \in {SimpleLookupWord(El(oLib, iLib), fuzzy_, sWord, {})} :
              /\ oLib' = [oLib EXCEPT ![iLib + 1] = r.self]
              /\ ret' = [op |-> "SimpleLookupWord", str |-> sWord, iLib |-> iLib,
                         bFound |-> r.bFound, idxs |-> r.idxs,
                         looked |-> r.looked, before |-> oLib]
    /\ UNCHANGED <<s1, s2, s3, cmp, fuzzy_, fz, disk>>

NextSimple == LoadSimple \/ SimpleLookup

SpecSimple == InitLibs /\ [][NextSimple]_vars

\* The candidates of SimpleLookup for sWord in their order: the word; with
\* fuzzy, the all-lower, all-upper and title-case variants that differ from
\* the word and, for a pure-ASCII word, those of the suffix rules 1 to 9.
Candidates(sWord, fuzzy) ==
    LET Differing(w) == IF w # sWord THEN <<w>> ELSE <<>>
        first == g_utf8_skip(sWord[1])
        title == g_utf8_strup(SubSeq(sWord, 1, first))
                     \o g_utf8_strdown(SubSeq(sWord, first + 1, Len(sWord)))
    IN  <<sWord>>
        \o (IF ~fuzzy THEN <<>>
            ELSE Differing(g_utf8_strdown(sWord)) \o Differing(g_utf8_strup(sWord))
                 \o Differing(title)
                 \o (IF \A i \in 1..Len(sWord) : sWord[i] < 128
                     THEN Rule_s_d(sWord) \o Rule_ly(sWord) \o Rule_ing(sWord)
                          \o Rule_es(sWord) \o Rule_ed(sWord) \o Rule_ied(sWord)
                          \o Rule_ies(sWord) \o Rule_er(sWord) \o Rule_est(sWord)
                     ELSE <<>>))

\* C21: SimpleLookup looks its candidates up in a fixed order and stops at
\* the first hit: the word itself; then, only with fuzzy and after a miss,
\* the all-lower, all-upper and title-case variants that differ from the
\* word; then, only for a pure-ASCII word, those of the suffix rules 1 to 9
\* in their order.  No candidate is looked up after a hit, and every
\* candidate is looked up in dictionary iLib.
C21_CandidateOrder ==
    ret.op = "SimpleLookupWord" =>
        /\ Len(ret.looked) >= 1
        /\ Len(ret.looked) <= Len(Candidates(ret.str, fuzzy_))
        /\ \A i \in 1..Len(ret.looked) :
              /\ ret.looked[i].str = Candidates(ret.str, fuzzy_)[i]
              /\ ret.looked[i].found
                     = IsStored(El(oLib, ret.iLib).idx_file, ret.looked[i].str)
              /\ i < Len(ret.looked) => ~ret.looked[i].found
        /\ Len(ret.looked) < Len(Candidates(ret.str, fuzzy_))
               => ret.looked[Len(ret.looked)].found
        /\ ret.bFound = ret.looked[Len(ret.looked)].found
        /\ \A j \in 0..(Len(oLib) - 1) : j # ret.iLib => El(oLib, j) = El(ret.before, j)

\* Walked was asked of the second dictionary, {walk}, the first being
\* {walke}: after the word, its two differing case variants and the two
\* candidates of rule 1 (Walke, walke) missed, rule 5 gave Walk, which
\* missed, and walk, which hit.
C21_Witness ==
    /\ ret.op = "SimpleLookupWord"
    /\ ret.str = W_Walked /\ ret.iLib = 1
    /\ StoredKeys(oLib[1].idx_file) = <<W_walke>>
    /\ StoredKeys(oLib[2].idx_file) = File_walk
    /\ Len(ret.looked) = 7
    /\ ret.looked[5].str = W_walke /\ ~ret.looked[5].found
    /\ ret.looked[7].str = W_walk /\ ret.looked[7].found
    /\ ret.bFound /\ ret.idxs = {0}


(***************************************************************************)
(* Specification SpecRecordCache: the records of one dictionary, one more  *)
(* than the cache has slots, are fetched in any order, any number of times *)
(***************************************************************************)
\* Records of one text field: "h", "hh", "hhh", ...; with empty, the second
\* record has no bytes and shares its offset with the third.
CacheRecords(empty) ==
    [k \in 1..(WORDDATA_CACHE_NUM + 1) |->
        << [type |-> Code("m"),
            data |-> (IF empty /\ k = 2 THEN <<>> ELSE Repeat(Code("h"), k))] >>]

LoadCacheRecords ==
    /\ oLib = <<>>
    /\ ret = NoCall
    /\ \E empty \in BOOLEAN, tagged \in BOOLEAN, hostBE \in BOOLEAN :
          oLib' = <<DictBase_load(CacheRecords(empty /\ ~tagged), tagged, hostBE)>>
    /\ UNCHANGED <<s1, s2, s3, cmp, fuzzy_, fz, ret, disk>>

\* GetWordData for entry j of the dictionary.  ret keeps the dictionary as
\* it was before the call and the slots filled by the last misses, the
\* latest last.
GetRecord ==
    /\ oLib # <<>>
    /\ \E j \in 1..Len(oLib[1].entries) :
          \E r \in {GetWordData(oLib[1], oLib[1].entries[j].offset,
                                oLib[1].entries[j].size, oLib[1].hostBE, FALSE)} :
          \E fills \in {IF ret.op = "get_record" THEN ret.fills ELSE <<>>} :
              /\ oLib' = <<r.self>>
              /\ ret' = [op |-> "get_record", j |-> j,
                         offset |-> oLib[1].entries[j].offset,
                         cached |-> r.cached, data |-> r.data,
                         before |-> oLib[1],
                         fills |-> IF r.cached THEN fills
                                   ELSE SubSeq(fills \o <<oLib[1].cache_cur>>,
                                               IF Len(fills) < WORDDATA_CACHE_NUM
                                               THEN 1 ELSE 2,
                                               Len(fills) + 1)]
    /\ UNCHANGED <<s1, s2, s3, cmp, fuzzy_, fz, disk>>

NextRecordCache == LoadCacheRecords \/ GetRecord

SpecRecordCache == InitLibs /\ [][NextRecordCache]_vars

\* The frame of record j of the dictionary dict, as decoding it gives it.
FrameOf(dict, j) ==
    GetWordData_build(dict.sametypesequence,
                      SubSeq(dict.dictfile, dict.entries[j].offset + 1,
                             dict.entries[j].offset + dict.entries[j].size),
                      dict.hostBE).data

LoadPage ==
    /\ oLib # <<>>
    /\ oLib[1].idx_file.kind = "OffsetIndex"
    /\ \E page_idx \in 0..(Len(oLib[1].idx_file.wordoffset) - 2) :
          \E r \in {load_page(oLib[1].idx_file, page_idx)} :
              /\ oLib' = <<[oLib[1] EXCEPT !.idx_file = r]>>
              /\ ret' = [op |-> "load_page", page_idx |-> page_idx,
                         nentr |-> load_page_nentr(oLib[1].idx_file, page_idx),
                         page |-> r.page]
    /\ UNCHANGED <<s1, s2, s3, cmp, fuzzy_, fz, disk>>

\* get_key(idx) on the loaded OffsetIndex.
GetKey ==
    /\ oLib # <<>>
    /\ oLib[1].idx_file.kind = "OffsetIndex"
    /\ \E idx \in 0..(oLib[1].idx_file.wordcount - 1) :
          \E r \in {OffsetIndex_get_key(oLib[1].idx_file, idx)} :
              /\ oLib' = <<[oLib[1] EXCEPT !.idx_file = r.self]>>
              /\ ret' = [op |-> "get_key", idx |-> idx, key |-> r.key,
                         page |-> r.self.page]
    /\ UNCHANGED <<s1, s2, s3, cmp, fuzzy_, fz, disk>>

NextPages == LoadIndex \/ LoadPage \/ GetKey

SpecPages == InitLibs /\ [][NextPages]_vars

\* The bytes the keys of l characters take among the first n entries of
\* the file, summed over l = 1..len.
RECURSIVE KeyBytes(_, _, _)
KeyBytes(file, n, len) ==
    IF len = 0 THEN 0
    ELSE len * Cardinality({k \in 1..n : Len(file[k]) = len})
         + KeyBytes(file, n, len - 1)

\* The byte offset in the .idx file at which entry n starts (the file's
\* length for n = Len(file)): each entry before it is its key, a NUL and
\* two 32-bit numbers.
ByteOffset(file, n) ==
    LET lens == {Len(file[k]) : k \in 1..n}
        longest == IF lens = {} THEN 0 ELSE CHOOSE l \in lens : \A m \in lens : m <= l
    IN  KeyBytes(file, n, longest) + n * (1 + 4 + 4)

\* ceil(wc / ENTR_PER_PAGE)
PageCount(wc) == (wc + ENTR_PER_PAGE - 1) \div ENTR_PER_PAGE

\* The entries the file holds on page p, in file order.
PageEntries(file, p) ==
    LET first == ENTR_PER_PAGE * p
        rest  == Len(file) - first
        n     == IF rest < ENTR_PER_PAGE THEN rest ELSE ENTR_PER_PAGE
    IN  [k \in 1..n |-> file[first + k]]

\* C23: for every wordcount >= 1 the page-offset table of a loaded
\* OffsetIndex has ceil(wordcount/32)+1 slots, slot p holding the byte
\* offset in the file of entry 32*p and the last slot the offset of the end
\* of the entries; load_page reports 32 entries for every page but the
\* final one, which holds wordcount mod 32 entries (32 when the remainder
\* is 0), and get_key(i) returns entry i mod 32 of page i div 32.
C23_PageTable ==
    (oLib # <<>> /\ oLib[1].idx_file.kind = "OffsetIndex") =>
        LET self == oLib[1].idx_file
            file == self.idxfile.keys
            wc   == self.wordcount
            np   == PageCount(wc)
        IN  /\ wc >= 1
            /\ Len(self.wordoffset) = np + 1
            /\ \A p \in 0..(np - 1) :
                  El(self.wordoffset, p) = ByteOffset(file, ENTR_PER_PAGE * p)
            /\ El(self.wordoffset, np) = ByteOffset(file, wc)
            /\ (ret # NoCall /\ ret.op = "load_page") =>
                  /\ ret.nentr = IF ret.page_idx < np - 1 THEN ENTR_PER_PAGE
                                 ELSE IF wc % ENTR_PER_PAGE = 0 THEN ENTR_PER_PAGE
                                 ELSE wc % ENTR_PER_PAGE
                  /\ ret.page.idx = ret.page_idx
                  /\ ret.page.entries = PageEntries(file, ret.page_idx)
                  /\ Len(ret.page.entries) = ret.nentr
            /\ (ret # NoCall /\ ret.op = "get_key") =>
                  /\ ret.page.idx = ret.idx \div ENTR_PER_PAGE
                  /\ ret.page.entries = PageEntries(file, ret.idx \div ENTR_PER_PAGE)
                  /\ ret.key = ret.page.entries[(ret.idx % ENTR_PER_PAGE) + 1]
                  /\ ret.key = file[ret.idx + 1]

\* load_page has read the one-entry final page of an index of two full
\* pages and one entry more.
C23_Witness ==
    /\ oLib # <<>> /\ oLib[1].idx_file.kind = "OffsetIndex"
    /\ oLib[1].idx_file.wordcount = 2 * ENTR_PER_PAGE + 1
    /\ Len(oLib[1].idx_file.wordoffset) = 4
    /\ ret # NoCall /\ ret.op = "load_page"
    /\ ret.page_idx = 2 /\ ret.nentr = 1


(***************************************************************************)
(* Specification SpecBoth: the same sorted list of index entries is loaded *)
(* twice, as .idx.gz into a WordListIndex and as .idx into an OffsetIndex, *)
(* and both indexes are looked up with the same query                      *)
(***************************************************************************)

\* Libs::load_dict of the two dictionaries: oLib[1] has the WordListIndex,
\* oLib[2] the OffsetIndex.
LoadBoth ==
    /\ oLib = <<>>
    /\ \E file \in IndexFiles :
          oLib' = <<Dict_load(file, TRUE, FALSE, <<>>),
                    Dict_load(file, FALSE, FALSE, <<>>)>>
    /\ ret' = NoCall
    /\ UNCHANGED <<s1, s2, s3, cmp, fuzzy_, fz, disk>>

\* idx_file->lookup(str, idxs, next_idx) on either index, each call with
\* idxs empty and a next_idx of its own that is not yet written.
LookupBoth ==
    /\ oLib # <<>>
    /\ \E str \in IndexQueries :
          \E wl \in {idx_file_lookup(oLib[1].idx_file, str, {}, NotWritten)},
             oi \in {idx_file_lookup(oLib[2].idx_file, str, {}, NotWritten)} :
              /\ oLib' = <<[oLib[1] EXCEPT !.idx_file = wl.self],
                           [oLib[2] EXCEPT !.idx_file = oi.self]>>
              /\ ret' = [op |-> "lookup", str |-> str,
                         wl |-> [bFound |-> wl.bFound, idxs |-> wl.idxs,
                                 next_idx |-> wl.next_idx],
                         oi |-> [bFound |-> oi.bFound, idxs |-> oi.idxs,
                                 next_idx |-> oi.next_idx]]
    /\ UNCHANGED <<s1, s2, s3, cmp, fuzzy_, fz, disk>>

NextBoth == LoadBoth \/ LookupBoth

SpecBoth == InitLibs /\ [][NextBoth]_vars

\* C24: for the same sorted list of index entries and the same query,
\* OffsetIndex::lookup and WordListIndex::lookup return the same found
\* flag, the same set of indices and the same next_idx (or both leave it
\* unwritten), for every wordcount on either side of a page boundary.
C24_SameLookup ==
    (ret # NoCall /\ ret.op = "lookup") =>
        /\ oLib[1].idx_file.kind = "WordListIndex"
        /\ oLib[2].idx_file.kind = "OffsetIndex"
        /\ oLib[1].idx_file.wordlist = oLib[2].idx_file.idxfile.keys
        /\ ret.wl.bFound = ret.oi.bFound
        /\ ret.wl.idxs = ret.oi.idxs
        /\ ret.wl.next_idx.written = ret.oi.next_idx.written
        /\ ret.wl.next_idx.written => ret.wl.next_idx.val = ret.oi.next_idx.val

\* Both lookups have found a run of equal keys that lies across the
\* boundary of the first and the second page of an index of three pages.
C24_Witness ==
    /\ ret # NoCall /\ ret.op = "lookup"
    /\ Len(oLib[2].idx_file.wordoffset) = 4
    /\ ret.oi.bFound /\ ret.wl.bFound
    /\ {ENTR_PER_PAGE - 1, ENTR_PER_PAGE} \subseteq ret.oi.idxs
    /\ ~ret.oi.next_idx.written


\* C25: after Dict::Lookup returns, a next_idx that was written is
\* INVALID_INDEX or an insertion position of the main index, 0..wordcount,
\* and never a position of the synonym list, whether the synonym lookup and
\* the index lookup hit or miss.
C25_NextIdxOfIndex ==
    (ret # NoCall /\ ret.op = "Lookup" /\ ret.next_idx.written) =>
        \/ ret.next_idx.val = INVALID_INDEX
        \/ ret.next_idx.val \in 0..oLib[1].idx_file.wordcount

\* The query misses in the synonym list and hits in the index: Lookup
\* returns true with the next_idx the synonym lookup wrote, a position of
\* the synonym list beyond the end of the index.
C25_Witness ==
    /\ ret # NoCall /\ ret.op = "Lookup"
    /\ ret.bFound
    /\ ret.idxs = {0}
    /\ oLib[1].idx_file.wordcount = 1
    /\ oLib[1].syn_file.size = 4
    /\ ret.next_idx = Written(2)


\* The headwords LookupWithFuzzy has scanned when it returns: every
\* headword of every dictionary.
Scanned == UNION {{El(StoredKeys(oLib[d].idx_file), k) :
                      k \in Positions(oLib[d].idx_file)} : d \in 1..Len(oLib)}

\* The headwords in the result.
ReturnedWords == {ReturnedWord(i) : i \in Returned}

\* The distance of the whole case-folded headword to the case-folded query.
WholeDistance(word, query) == EditDist(Folded(word), Folded(query))

\* The distance the lookup measures: of the case-folded headword cut to the
\* query's length to the case-folded query.
CutDistance(word, query) == EditDist(CutToQuery(word, query), Folded(query))

\* C26, as the specification states it: FuzzyLookup returns the closest
\* headwords; if a scanned headword h is not in the result and r is, the
\* edit distance of case-folded h to the case-folded query is not smaller
\* than that of r, unless h is rejected by the bounds (distance >= 3 or >=
\* the query's length).
C26_ClosestWhole ==
    (ret.op = "LookupWithFuzzy" /\ ret.str # <<>>) =>
        \A h \in Scanned \ ReturnedWords : \A r \in ReturnedWords :
            \/ WholeDistance(h, ret.str) >= WholeDistance(r, ret.str)
            \/ WholeDistance(h, ret.str) >= 3
            \/ WholeDistance(h, ret.str) >= Len(Folded(ret.str))

\* The largest distance a slot of the result holds, an empty slot holding
\* iMaxFuzzyDistance.
LargestStored ==
    CHOOSE d \in 0..iMaxFuzzyDistance :
        /\ \E i \in 1..Len(ret.oFuzzystruct) : ret.oFuzzystruct[i].iMatchWordDistance = d
        /\ \A i \in 1..Len(ret.oFuzzystruct) : ret.oFuzzystruct[i].iMatchWordDistance <= d

\* C26, amended: if a scanned headword h is not in the result and r is, the
\* distance the lookup measures for h (case-folded h cut to the query's
\* length, against the case-folded query) is not smaller than the one it
\* measures for r, unless h is rejected by the bounds (measured distance
\* >= 3 or >= the query's length) or by its length (which differs from the
\* query's by at least the largest distance in the result, 3 if the result
\* has a free slot).
C26_ClosestMeasured ==
    (ret.op = "LookupWithFuzzy" /\ ret.str # <<>>) =>
        \A h \in Scanned \ ReturnedWords : \A r \in ReturnedWords :
            LET L  == Len(Folded(ret.str))
                n  == Len(Folded(h))
                dh == CutDistance(h, ret.str)
                dr == CutDistance(r, ret.str)
            IN  \/ dh >= dr
                \/ dh >= 3
                \/ dh >= L
                \/ n - L >= LargestStored
                \/ L - n >= LargestStored

\* Every slot of the result is filled and a scanned headword was left out
\* that passed the length filter and the bounds and measures farther from
\* the query than a returned one.
C26_Witness ==
    /\ ret.op = "LookupWithFuzzy" /\ ret.str # <<>>
    /\ Cardinality(Returned) = ret.reslist_size
    /\ \E h \in Scanned \ ReturnedWords : \E r \in ReturnedWords :
          /\ CutDistance(h, ret.str) < 3
          /\ CutDistance(h, ret.str) < Len(Folded(ret.str))
          /\ Len(Folded(h)) - Len(Folded(ret.str)) < LargestStored
          /\ Len(Folded(ret.str)) - Len(Folded(h)) < LargestStored
          /\ CutDistance(h, ret.str) > CutDistance(r, ret.str)


\* The slots of the running lookup whose distance is d.
SlotsAt(f, d) == {j \in 1..Len(f.oFuzzystruct) : f.oFuzzystruct[j].iMatchWordDistance = d}

\* The running threshold is the largest distance a slot holds, an empty
\* slot holds 3, and a stored headword holds less than 3.
ThresholdIsMax ==
    fz.active =>
        /\ Len(fz.oFuzzystruct) >= 1
        /\ SlotsAt(fz, fz.iMaxDistance) # {}
        /\ \A j \in 1..Len(fz.oFuzzystruct) :
              /\ fz.oFuzzystruct[j].iMatchWordDistance <= fz.iMaxDistance
              /\ fz.oFuzzystruct[j].pMatchWord = nullptr
                    => fz.oFuzzystruct[j].iMatchWordDistance = 3
              /\ fz.oFuzzystruct[j].pMatchWord # nullptr
                    => fz.oFuzzystruct[j].iMatchWordDistance < 3

\* A step of the lookup: it starts with the threshold 3; a pass never
\* raises the threshold; a pass that changes the slots changes one slot,
\* whose distance was the threshold, and puts the scanned headword there
\* with a distance below the threshold.
ThresholdStep ==
    /\ (~fz.active /\ fz'.active) => fz'.iMaxDistance = 3
    /\ (fz.active /\ fz'.active) =>
          /\ fz'.iMaxDistance <= fz.iMaxDistance
          /\ Len(fz'.oFuzzystruct) = Len(fz.oFuzzystruct)
          /\ fz'.oFuzzystruct # fz.oFuzzystruct =>
                \E j \in SlotsAt(fz, fz.iMaxDistance) :
                    /\ \A k \in 1..Len(fz.oFuzzystruct) :
                          k # j => fz'.oFuzzystruct[k] = fz.oFuzzystruct[k]
                    /\ fz'.oFuzzystruct[j].pMatchWord =
                          <<poGetWord(oLib[fz.iLib + 1], fz.index)>>
                    /\ fz'.oFuzzystruct[j].iMatchWordDistance < fz.iMaxDistance

\* C27: throughout FuzzyLookup with n >= 1 slots the running threshold
\* iMaxDistance equals the maximum distance stored over the n slots, starts
\* at 3 and never increases; whenever a candidate is admitted there is a
\* slot whose distance equals the threshold, that slot is the one replaced,
\* and every stored headword has distance < 3.
C27_Threshold == []ThresholdIsMax /\ [][ThresholdStep]_vars

\* With two slots, a headword has replaced a stored headword that held the
\* threshold: both slots are filled with different distances and the
\* threshold, below 3, is the larger one.
C27_Witness ==
    /\ fz.active
    /\ Len(fz.oFuzzystruct) = 2
    /\ fz.iMaxDistance < 3
    /\ fz.oFuzzystruct[1].iMatchWordDistance # fz.oFuzzystruct[2].iMatchWordDistance
    /\ fz.iLib = 1 /\ fz.index = 0


\* C28: for every query string, one whose last character is a backslash
\* included, the needle parser of LookupData reads no byte beyond the
\* string's terminating NUL and ends at that NUL.
C28_ParserStopsAtNul ==
    ret.op = "LookupData" => ~ret.overrun

\* The query h\ : behind the backslash the parser takes the terminating
\* NUL as the escaped character, steps over it and reads on.
C28_Witness ==
    /\ ret.op = "LookupData"
    /\ ret.sWord = Str(<<"h", "\\">>)
    /\ ret.overrun
    /\ ret.SearchWords # <<>>
    /\ ret.SearchWords[1] = Str(<<"h">>)

=============================================================================
